---- MODULE Spec2Model ----
(***************************************************************************)
(* A model of the RETE join network of fuxi/lib/Rete/BetaNode.py:          *)
(* ReteMemory, PartialInstanciation and BetaNode, driven by alpha nodes.   *)
(*                                                                         *)
(* Terms are strings.  A binding (a Python dict from variable to term) is  *)
(* a function whose domain is a set of variable names; <<>> is the empty   *)
(* dict.  A Python list of dicts is a sequence of such functions.          *)
(***************************************************************************)
EXTENDS Integers, Sequences, FiniteSets, TLC

VARIABLES net, varOrder, commonVariables, memL, memR, firings, conflictSet,
          fireLog, inferredFacts, error, fedCount, nFeeds, script, pending,
          ontGraph, stratum,
          piSelf, piOp, piArg, piOut,
          nodes, call,
          ruleStore, networkNodes, clause

vars == <<net, varOrder, commonVariables, memL, memR, firings, conflictSet,
          fireLog, inferredFacts, error, fedCount, nFeeds, script, pending,
          ontGraph, stratum,
          piSelf, piOp, piArg, piOut,
          nodes, call,
          ruleStore, networkNodes, clause>>

netVars == <<net, varOrder, commonVariables, memL, memR, firings, conflictSet,
             fireLog, inferredFacts, error, fedCount, nFeeds, script, pending>>

piVars == <<piSelf, piOp, piArg, piOut>>

buildVars == <<nodes, call>>

n3Vars == <<ruleStore, networkNodes, clause>>

csmVars == <<ontGraph, stratum>>

(***************************************************************************)
(* Bounds of the model.                                                    *)
(***************************************************************************)
\* how many times a fact that was already fed may be fed again in one run
MaxRefeed == 1
\* the largest number of tokens of a PartialInstanciation drawn as an input
MaxPITokens == 3
\* the largest value that hash() of a token takes where the hashes of the
\* tokens are drawn as inputs
MaxHash == 3

(***************************************************************************)
(* Terms, patterns, facts.                                                 *)
(***************************************************************************)
\* rdflib Variable terms: the names the rule bodies of the model use
VarNames == {"X", "Y", "Z", "W", "V"}

\* binding.get(var) of a variable the dict lacks
None == "None"

\* dict.get(var)
Get(d, var) == IF var \in DOMAIN d THEN d[var] ELSE None

\* The iteration orders of a dict or Set of variables.  Python 2 iterates a
\* dict in hash-slot order, which depends on the names; the model takes the
\* order as an input of the run (chosen in Init).
VarOrders ==
    { <<"X", "Y", "Z", "W", "V">>,
      <<"V", "W", "Z", "Y", "X">>,
      <<"W", "Y", "V", "X", "Z">> }

\* the elements of the set S of variables, in dict order ord
SortVars(S, ord) == SelectSeq(ord, LAMBDA v : v \in S)

Range(s) == {s[i] : i \in DOMAIN s}

RECURSIVE SetToSeq(_)
SetToSeq(S) ==
    IF S = {} THEN <<>>
    ELSE LET x == CHOOSE y \in S : TRUE IN <<x>> \o SetToSeq(S \ {x})

\* isinstance(node, BuiltInAlphaNode): a built-in filter is written
\* <<"builtin", func, argument, result>> in a rule body
IsBuiltIn(pat) == Len(pat) = 4

\* collectVariables (lines 46-60) of an AlphaNode: the variable terms of its
\* pattern; of a BuiltInAlphaNode: the empty Set
PatternVars(pat) ==
    IF IsBuiltIn(pat) THEN {} ELSE {pat[i] : i \in 1..3} \cap VarNames

(***************************************************************************)
(* The rule sets of the model.  A rule is a body (the patterns in          *)
(* left-to-right order), a head (the consequent) and the facts that may be *)
(* fed to its network.  No head matches a body pattern: no rule is         *)
(* recursive.                                                              *)
(***************************************************************************)
\* BetaNode doctest (lines 521-625): aNode1, aNode2, aNode3, token1..token6
Scenario1 ==
    [ body  |-> << <<"X", "value", "2">>, <<"X", "type", "Y">>,
                   <<"Z", "prop1", "W">> >>,
      head  |-> <<"X", "type", "SelectedVar">>,
      facts |-> << <<"Boo", "value", "2">>, <<"Foo", "value", "2">>,
                   <<"Foo", "type", "Baz">>, <<"Bash", "type", "Baz">>,
                   <<"Bar", "prop1", "Beezle">>, <<"Bar", "prop1", "Bundle">> >> ]

\* a body of two patterns that share a variable; every fact matches both
JoinAB ==
    [ body  |-> << <<"X", "p", "Y">>, <<"Y", "p", "Z">> >>,
      head  |-> <<"X", "r", "Z">>,
      facts |-> << <<"a", "p", "b">>, <<"b", "p", "c">>,
                   <<"b", "p", "b">>, <<"c", "p", "a">> >> ]

\* the same rule with the two body patterns in the other order
JoinBA ==
    [ body  |-> << <<"Y", "p", "Z">>, <<"X", "p", "Y">> >>,
      head  |-> JoinAB.head,
      facts |-> JoinAB.facts ]

\* a left-deep chain of five patterns; the later joins are on variables that
\* the first pattern does not bind
Chain5 ==
    [ body  |-> << <<"X", "c1", "k">>, <<"X", "c2", "Y">>, <<"Y", "c3", "W">>,
                   <<"Y", "c4", "V">>, <<"W", "c5", "V">> >>,
      head  |-> <<"X", "sel", "V">>,
      facts |-> << <<"x1", "c1", "k">>, <<"x1", "c2", "y1">>,
                   <<"y1", "c3", "w1">>, <<"y1", "c4", "v1">>,
                   <<"w1", "c5", "v1">> >> ]

\* JoinAB followed by a built-in filter on two variables of the join
FilterAB ==
    [ body  |-> << <<"X", "p", "Y">>, <<"Y", "p", "Z">>,
                   <<"builtin", "notEqualTo", "X", "Z">> >>,
      head  |-> JoinAB.head,
      facts |-> JoinAB.facts ]

\* a pass-through node that feeds a built-in filter with a constant operand
FilterA ==
    [ body  |-> << <<"X", "p", "Y">>, <<"builtin", "notEqualTo", "Y", "b">> >>,
      head  |-> <<"X", "s", "Y">>,
      facts |-> JoinAB.facts ]

\* the network of the addToken doctest (lines 149-151), joinNode1 =
\* BetaNode(aNode1, aNode2): one join node whose left input is an alpha node,
\* here with the two patterns of JoinAB
AlphaJoin ==
    [ left  |-> <<"X", "p", "Y">>,
      body  |-> << <<"Y", "p", "Z">> >>,
      head  |-> JoinAB.head,
      facts |-> JoinAB.facts ]

NetNames == {"Scenario1", "JoinAB", "JoinBA", "Chain5"}

\* the networks with a built-in filter
FilterNets == {"FilterAB", "FilterA"}

\* the subjects of the graph of the atomic-negation test (Negation.py, lines
\* 326-347): the two individuals and the three classes
Subjects == <<"individual", "individual2", "Bar", "Baz", "OtherClass">>

\* a positive rule for the network of the stratified model, Qux(?X) :- Baz(?X);
\* its facts are the heads of the negative rules that can be fed to it
QuxOfBaz ==
    [ body  |-> << <<"X", "type", "Baz">> >>,
      head  |-> <<"X", "type", "Qux">>,
      facts |-> [k \in DOMAIN Subjects |-> <<Subjects[k], "type", "Baz">>]
                   \o [k \in DOMAIN Subjects |-> <<Subjects[k], "type", "Quux">>] ]

Rule(n) ==
    CASE n = "Scenario1" -> Scenario1
      [] n = "JoinAB"    -> JoinAB
      [] n = "JoinBA"    -> JoinBA
      [] n = "Chain5"    -> Chain5
      [] n = "FilterAB"  -> FilterAB
      [] n = "FilterA"   -> FilterA
      [] n = "QuxOfBaz"  -> QuxOfBaz
      [] n = "AlphaJoin" -> AlphaJoin

Body(n) == Rule(n).body
Facts(n) == Range(Rule(n).facts)
NumNodes(n) == Len(Body(n))

(***************************************************************************)
(* ReteToken (AlphaNode.py): a fact and the binding of the pattern's       *)
(* variables.  gen tells the objects made by different activations apart:  *)
(* it is the number of times the fact had been fed before.                 *)
(***************************************************************************)
\* AlphaNode's test of a fact against its pattern
Match(pat, fact) ==
    /\ ~IsBuiltIn(pat)
    /\ \A i \in 1..3 : pat[i] \in VarNames \/ pat[i] = fact[i]
    /\ \A i, j \in 1..3 : (pat[i] \in VarNames /\ pat[i] = pat[j]) => fact[i] = fact[j]

\* the binding of the pattern's variables to the terms of the fact
BindingOf(fact, pat) ==
    [v \in PatternVars(pat) |-> fact[CHOOSE i \in 1..3 : pat[i] = v]]

\* the token without its object identity
Strip(t) == [fact |-> t.fact, bindingDict |-> t.bindingDict]

\* the tokens used to draw PartialInstanciations as inputs
\* (newJoin doctest, lines 458-479: aNode1..aNode3, token1..token5)
PIPatterns == { <<"X", "type", "Prop1">>, <<"Y", "type", "Prop1">>,
                <<"X", "Y", "Class">> }
PIFacts == { <<"domain", "type", "Prop1">>, <<"range", "type", "Prop1">>,
             <<"domain", "domain", "Class">>, <<"range", "domain", "Class">> }

UnhashedOver(pats, facts) ==
    {[fact |-> pf[2], bindingDict |-> BindingOf(pf[2], pf[1])] :
        pf \in {x \in pats \X facts : Match(x[1], x[2])}}

TokenUniverse ==
    SetToSeq(UnhashedOver(PIPatterns, PIFacts)
             \cup UNION {UnhashedOver(Range(Body(n)), Facts(n)) :
                               n \in NetNames \cup FilterNets \cup {"QuxOfBaz"}})

\* the hash of the string that bindVariables builds from the terms and the
\* bound variables.  The string hashes of the model's tokens are taken to be
\* free of collisions, also under addition.
StringHash(fact, binding) ==
    2 ^ ((CHOOSE i \in DOMAIN TokenUniverse :
             TokenUniverse[i] = [fact |-> fact, bindingDict |-> binding]) - 1)

\* ReteToken.bindVariables: the binding and the hash are set
BindVariables(fact, pat, gen) ==
    [ fact        |-> fact,
      bindingDict |-> BindingOf(fact, pat),
      hash        |-> StringHash(fact, BindingOf(fact, pat)),
      gen         |-> gen ]

TokensOver(pats, facts) ==
    {BindVariables(pf[2], pf[1], 0) : pf \in {x \in pats \X facts : Match(x[1], x[2])}}

PITokens == TokensOver(PIPatterns, PIFacts)

\* ReteToken.__hash__
TokenHash(t) == t.hash

\* ReteToken.__eq__
TokenEq(a, b) == TokenHash(a) = TokenHash(b)

\* iteration order of a Set of tokens
RECURSIVE TokenSeq(_)
TokenSeq(S) ==
    IF S = {} THEN <<>>
    ELSE LET t == CHOOSE x \in S : \A y \in S : TokenHash(x) <= TokenHash(y)
         IN <<t>> \o TokenSeq(S \ {t})

\* Set.add of a token: an equal element already in the Set stays
TokenSetAdd(S, t) == IF \E x \in S : TokenEq(x, t) THEN S ELSE S \cup {t}

(***************************************************************************)
(* PartialInstanciation: tokens (a Set of ReteTokens), joinedBindings (a   *)
(* dict) and bindings (a list of dicts).                                   *)
(***************************************************************************)
\* tokenHashes.sort() (line 247)
RECURSIVE SortHashes(_)
SortHashes(hs) ==
    IF hs = <<>> THEN <<>>
    ELSE LET k == CHOOSE i \in DOMAIN hs : \A j \in DOMAIN hs : hs[i] <= hs[j]
         IN <<hs[k]>> \o SortHashes(SubSeq(hs, 1, k - 1) \o SubSeq(hs, k + 1, Len(hs)))

\* PartialInstanciation._generateHash (lines 245-248) when the Set of tokens
\* is iterated in the order q: the hashes are listed, sorted and summed;
\* hash() of an int is the int
HashOfList(q) ==
    LET tokenHashes == SortHashes([k \in DOMAIN q |-> TokenHash(q[k])])
        RECURSIVE Sum(_)
        Sum(k) == IF k > Len(tokenHashes) THEN 0 ELSE tokenHashes[k] + Sum(k + 1)
    IN Sum(1)

PIHash(tokens) == HashOfList(TokenSeq(tokens))

\* The mutant of PIEq: the joined bindings are compared as well.
PIEqWithBindings(a, b) == a.hash = b.hash /\ a.joinedBindings = b.joinedBindings

\* PartialInstanciation.__eq__
PIEq(a, b) == a.hash = b.hash

\* Set.add of a PartialInstanciation: an equal element already in the Set stays
PISetAdd(S, x) == IF \E y \in S : PIEq(y, x) THEN S ELSE S \cup {x}

\* project(orig_dict, attributes) with attributes a list
Project(d, attributes) == [k \in DOMAIN d \cap Range(attributes) |-> d[k]]

\* The mutant of Unify: the result is one dict without the joined variables.
UnifyUnjoined(left, right, jb) ==
    << [v \in (DOMAIN left \cup DOMAIN right) \ DOMAIN jb |-> (right @@ left)[v]] >>

\* The mutant of Unify: the two dicts are always collapsed into one.
UnifyIntoOne(left, right, jb) == << right @@ left >>

\* PartialInstanciation.unify: one dict in a list when no variable outside
\* joinedBindings is shared, else the two dicts rounded out with each other
Unify(left, right, jb) ==
    IF ((DOMAIN left \cap DOMAIN right) \ DOMAIN jb) = {}
    THEN << right @@ left >>
    ELSE << left @@ right, right @@ left >>

\* the keys of a token's bindingDict that are not joined (lines 354-356)
FreeKeys(t, jb) == DOMAIN t.bindingDict \ DOMAIN jb

\* isolatedBindings (lines 360-361): variable -> Set of values, from the
\* tokens with exactly one unjoined variable
IsolatedBindings(tokens, jb) ==
    LET iso == {t \in tokens : Cardinality(FreeKeys(t, jb)) = 1}
        varOf(t) == CHOOSE v \in FreeKeys(t, jb) : TRUE
    IN [v \in {varOf(t) : t \in iso} |->
            {t.bindingDict[v] : t \in {u \in iso : varOf(u) = v}}]

\* forcedBindings (lines 362-363), in the iteration order of the tokens
ForcedBindings(tokens, jb) ==
    LET toks == SelectSeq(TokenSeq(tokens), LAMBDA t : Cardinality(FreeKeys(t, jb)) > 1)
    IN [i \in DOMAIN toks |-> [v \in FreeKeys(toks[i], jb) |-> toks[i].bindingDict[v]]]

\* the value of the loop variable var when the loop over the tokens is over
\* (line 357): the last unjoined key of the last token that has one
LastVar(tokens, jb, ord) ==
    LET toks == SelectSeq(TokenSeq(tokens), LAMBDA t : FreeKeys(t, jb) /= {})
        keys == SortVars(FreeKeys(toks[Len(toks)], jb), ord)
    IN keys[Len(keys)]

\* revIsolBindings (lines 364-367): every value is filed under var, which is
\* not the variable of the loop at hand
RevIsolBindings(tokens, jb, ord) ==
    LET isoB == IsolatedBindings(tokens, jb)
    IN [val \in UNION {isoB[v] : v \in DOMAIN isoB} |-> {LastVar(tokens, jb, ord)}]

\* lines 368-378: the combinations of the isolated bindings that pass the
\* test on revIsolBindings, each updated with joinedBindings
IsolatedCombinations(tokens, jb, ord) ==
    LET isoB == IsolatedBindings(tokens, jb)
        rev  == RevIsolBindings(tokens, jb, ord)
        combos == {d \in [DOMAIN isoB -> UNION {isoB[v] : v \in DOMAIN isoB}] :
                      \A v \in DOMAIN isoB : d[v] \in isoB[v]}
        kept == {d \in combos : \E v \in DOMAIN d : Cardinality(rev[d[v]]) <= 1}
    IN IF DOMAIN isoB = {} THEN <<>>
       ELSE [i \in DOMAIN SetToSeq(kept) |-> jb @@ SetToSeq(kept)[i]]

\* collapse (lines 379-398) with left a list and right a dict
Collapse(left, right, jb) ==
    IF left = <<>> THEN <<right>>
    ELSE IF Len(left) = 1 THEN Unify(left[1], right, jb)
    ELSE Append(left, right)

RECURSIVE Reduce(_, _, _)
Reduce(bindings, acc, jb) ==
    IF bindings = <<>> THEN acc
    ELSE Reduce(Tail(bindings), Collapse(acc, Head(bindings), jb), jb)

\* "if newDict not in bindings: bindings.append(newDict)"
RECURSIVE AppendNew(_, _)
AppendNew(bindings, more) ==
    IF more = <<>> THEN bindings
    ELSE AppendNew(IF Head(more) \in Range(bindings) THEN bindings
                   ELSE Append(bindings, Head(more)), Tail(more))

\* The mutant of GenerateBindings: the joined bindings are the one binding
\* combination.
GenerateBindingsOfJoined(tokens, jb, ord) == <<jb>>

\* PartialInstanciation._generateBindings
GenerateBindings(tokens, jb, ord) ==
    IF Cardinality(tokens) = 1
    THEN << (CHOOSE t \in tokens : TRUE).bindingDict >>
    ELSE LET forced == ForcedBindings(tokens, jb)
             bindings == AppendNew(IsolatedCombinations(tokens, jb, ord),
                                   [i \in DOMAIN forced |-> jb @@ forced[i]])
             result == Reduce(bindings, <<>>, jb)
         IN IF result = <<>> THEN <<jb>> ELSE result

\* PartialInstanciation(tokens, consistentBindings = jb)
MakePI(tokens, jb, ord) ==
    [ tokens         |-> tokens,
      joinedBindings |-> jb,
      hash           |-> PIHash(tokens),
      bindings       |-> GenerateBindings(tokens, jb, ord) ]

\* the variables bound by a token of the set
TokenVars(tokens) == UNION {DOMAIN t.bindingDict : t \in tokens}

\* "x in attributes" with attributes an iterator: the iterator is consumed up
\* to and including x, or to its end when x is not met
IterRest(rest, x) ==
    IF x \in Range(rest)
    THEN SubSeq(rest, (CHOOSE i \in DOMAIN rest : rest[i] = x) + 1, Len(rest))
    ELSE <<>>

\* project(orig_dict, attributes) with attributes an iterator (the ifilter of
\* lines 839 and 885): the keys of orig_dict, in dict order, are looked up in
\* what is left of the iterator.  [dict, rest]
RECURSIVE ProjectIter(_, _, _, _)
ProjectIter(keys, d, rest, acc) ==
    IF keys = <<>> THEN [dict |-> acc, rest |-> rest]
    ELSE LET k == Head(keys)
         IN ProjectIter(Tail(keys), d, IterRest(rest, k),
                        IF k \in Range(rest) THEN (k :> d[k]) @@ acc ELSE acc)

\* lines 487-497: a token is added when a new join variable agrees with the
\* new token (commonVars), and added when none does
RetainedTokens(tokens, w, newJoinVariables) ==
    {t \in tokens :
        LET commonVars == \E x \in Range(newJoinVariables) :
                             /\ x \in DOMAIN t.bindingDict
                             /\ w.bindingDict[x] = t.bindingDict[x]
        IN commonVars \/ ~commonVars}

\* the tokens of newPInst after the adds of lines 494-504
RECURSIVE AddTokens(_, _)
AddTokens(S, toks) ==
    IF toks = <<>> THEN S ELSE AddTokens(TokenSetAdd(S, Head(toks)), Tail(toks))

\* PartialInstanciation.newJoin(rightWME, newJoinVariables) with
\* newJoinVariables a list
NewJoin(p, w, newJoinVariables, ord) ==
    IF newJoinVariables /= <<>>
    THEN MakePI(AddTokens({}, TokenSeq(RetainedTokens(p.tokens, w, newJoinVariables))
                              \o <<w>>),
                Project(w.bindingDict, newJoinVariables) @@ p.joinedBindings, ord)
    ELSE MakePI(AddTokens({}, TokenSeq(p.tokens) \o <<w>>), p.joinedBindings, ord)

\* PartialInstanciation.newJoin(rightWME, newJoinVariables) as propagate
\* calls it, with newJoinVariables an ifilter object: the object is true
\* also when it yields nothing, and project consumes it
NewJoinIter(p, w, newJoinVariables, ord) ==
    LET pr == ProjectIter(SortVars(DOMAIN w.bindingDict, ord), w.bindingDict,
                          newJoinVariables, <<>>)
    IN MakePI(AddTokens({}, TokenSeq(RetainedTokens(p.tokens, w, pr.rest)) \o <<w>>),
              pr.dict @@ p.joinedBindings, ord)

\* The mutant of AddConsistentBinding: the binding combinations are not
\* generated again.
AddConsistentBindingKeepsBindings(p, newJoinVariables, ord) ==
    [p EXCEPT !.joinedBindings =
        [v \in Range(newJoinVariables) |->
            IF \E b \in DOMAIN p.bindings : Get(p.bindings[b], v) /= None
            THEN Get(p.bindings[CHOOSE b \in DOMAIN p.bindings :
                        /\ Get(p.bindings[b], v) /= None
                        /\ \A c \in 1..(b - 1) : Get(p.bindings[c], v) = None], v)
            ELSE None] @@ @]

\* PartialInstanciation.addConsistentBinding (lines 442-455): each new join
\* variable gets the value of the first binding combination that has one, or
\* None; joinedBindings is updated and the bindings are generated again
AddConsistentBinding(p, newJoinVariables, ord) ==
    LET has(v) == {b \in DOMAIN p.bindings : Get(p.bindings[b], v) /= None}
        first(v) == CHOOSE b \in has(v) : \A c \in has(v) : b <= c
        newJoinDict == [v \in Range(newJoinVariables) |->
                          IF has(v) = {} THEN None ELSE p.bindings[first(v)][v]]
    IN [p EXCEPT !.joinedBindings = newJoinDict @@ @,
                 !.bindings = GenerateBindings(p.tokens, newJoinDict @@ p.joinedBindings,
                                               ord)]

(***************************************************************************)
(* PartialInstanciation as a library: a run constructs one instantiation   *)
(* and calls one method on it.                                             *)
(***************************************************************************)
\* the dicts over the variables of PIPatterns
PIBindings ==
    UNION {[S -> {"domain", "range"}] : S \in SUBSET {"X", "Y"}}

\* every token that binds a joined variable binds it to the joined value
Compatible(tokens, jb) ==
    \A t \in tokens : \A v \in DOMAIN t.bindingDict \cap DOMAIN jb :
        t.bindingDict[v] = jb[v]

\* the lists of distinct variables of the set S
VarLists(S) ==
    {q \in UNION {[1..k -> S] : k \in 0..Cardinality(S)} :
        \A i, j \in DOMAIN q : i /= j => q[i] /= q[j]}

NoPI == [tokens |-> {}, joinedBindings |-> <<>>, hash |-> 0, bindings |-> <<>>]

\* no network has been built
NetIdle ==
    /\ net = "none"
    /\ commonVariables = <<>>
    /\ error = "none"
    /\ memL = <<>>
    /\ memR = <<>>
    /\ firings = 0
    /\ conflictSet = {}
    /\ fireLog = {}
    /\ inferredFacts = {}
    /\ fedCount = <<>>
    /\ nFeeds = 0
    /\ script = 0
    /\ pending = <<>>

\* no instantiation has been constructed
PIIdle ==
    /\ piSelf = NoPI
    /\ piOp = "none"
    /\ piArg = <<>>
    /\ piOut = NoPI

\* no BetaNode has been constructed
BuildIdle ==
    /\ nodes = <<>>
    /\ call = [made |-> FALSE]

\* no clause has been compiled
N3Idle ==
    /\ ruleStore = [formulae |-> <<>>, rules |-> <<>>]
    /\ networkNodes = 0
    /\ clause = [made |-> FALSE, calls |-> 0]

\* CalculateStratifiedModel has not been called
CSMIdle ==
    /\ ontGraph = {}
    /\ stratum = [phase |-> "none", rows |-> {}]

PIInit ==
    /\ varOrder \in VarOrders
    /\ PIIdle
    /\ CSMIdle
    /\ NetIdle
    /\ BuildIdle
    /\ N3Idle

\* PartialInstanciation(tokens, consistentBindings = jb)
PIConstruct ==
    /\ piOp = "none"
    /\ \E tokens \in SUBSET PITokens : \E jb \in PIBindings :
          /\ Cardinality(tokens) \in 1..MaxPITokens
          /\ Compatible(tokens, jb)
          /\ piSelf' = MakePI(tokens, jb, varOrder)
          /\ piOut' = MakePI(tokens, jb, varOrder)
    /\ piOp' = "new"
    /\ piArg' = <<>>
    /\ UNCHANGED <<netVars, buildVars, n3Vars, csmVars>>

\* piSelf.newJoin(w, newJoinVariables) with a list of variables w binds
PINewJoin ==
    /\ piOp = "new"
    /\ \E w \in PITokens : \E V \in VarLists(DOMAIN w.bindingDict) :
          /\ piArg' = <<w, V>>
          /\ piOut' = NewJoin(piSelf, w, V, varOrder)
    /\ piOp' = "newJoin"
    /\ UNCHANGED <<piSelf, netVars, buildVars, n3Vars, csmVars>>

\* piSelf.addConsistentBinding(newJoinVariables) with a list of variables;
\* the method changes the object, piOut is the object after the call
PIAddConsistentBinding ==
    /\ piOp = "new"
    /\ \E V \in VarLists({"X", "Y"}) :
          /\ piArg' = <<V>>
          /\ piOut' = AddConsistentBinding(piSelf, V, varOrder)
    /\ piOp' = "addConsistentBinding"
    /\ UNCHANGED <<piSelf, netVars, buildVars, n3Vars, csmVars>>

\* piSelf.unify(left, right) (lines 250-265) with two dicts that agree with
\* joinedBindings, as those that _generateBindings has updated with it do;
\* the third element of piArg is what the call returns
PIUnify ==
    /\ piOp = "new"
    /\ \E left \in PIBindings, right \in PIBindings :
          /\ \A d \in {left, right} : \A v \in DOMAIN d \cap DOMAIN piSelf.joinedBindings :
                d[v] = piSelf.joinedBindings[v]
          /\ piArg' = <<left, right, Unify(left, right, piSelf.joinedBindings)>>
    /\ piOp' = "unify"
    /\ UNCHANGED <<piSelf, piOut, netVars, buildVars, n3Vars, csmVars>>

\* Two instantiations constructed from tokens whose hashes are inputs:
\* hash(token) (line 246) is the hash of a string, an integer that the code
\* does not choose.  Distinct tokens are given distinct hashes here.
PIGenerateHash ==
    /\ piOp = "none"
    /\ \E A \in SUBSET PITokens, B \in SUBSET PITokens :
       \E h \in [A \cup B -> 1..MaxHash] :
          /\ A /= B
          /\ Cardinality(A) \in 1..(MaxPITokens - 1)
          /\ Cardinality(B) \in 1..(MaxPITokens - 1)
          /\ \A t, u \in A \cup B : t /= u => h[t] /= h[u]
          /\ piSelf' = MakePI({[t EXCEPT !.hash = h[t]] : t \in A}, <<>>, varOrder)
          /\ piOut' = MakePI({[t EXCEPT !.hash = h[t]] : t \in B}, <<>>, varOrder)
    /\ piOp' = "hash"
    /\ piArg' = <<>>
    /\ UNCHANGED <<netVars, buildVars, n3Vars, csmVars>>

PINext ==
    PIConstruct \/ PINewJoin \/ PIAddConsistentBinding \/ PIUnify \/ PIGenerateHash

SpecPI == PIInit /\ [][PINext]_vars

(***************************************************************************)
(* The network of a rule: node 1 is the pass-through node on the first     *)
(* pattern (BetaNode(None, aNode1, aPassThru=True)), node i > 1 is         *)
(* BetaNode(node i-1, aNode i), and the last node carries the consequent.  *)
(***************************************************************************)
LEFT_MEMORY == 1
RIGHT_MEMORY == 2

\* propagationSource = None: the signal of a beta node to the node whose
\* right memory it feeds (line 714)
NoSource == 0

\* The mutant of DescendentPosition: the node is connected as the right input
\* of the node below.
DescendentPositionRight(n, i) == RIGHT_MEMORY

\* connectIncomingNodes (lines 677-679): node i is the left input of node
\* i + 1, and its descendentMemory is the left memory of that node
DescendentPosition(n, i) == LEFT_MEMORY

\* The mutant of IsPassThru: every node above the terminal node is made a
\* pass-through node.
IsPassThruAboveTerminal(n, i) == i < NumNodes(n)

\* BetaNode.aPassThru
IsPassThru(n, i) == i = 1 /\ "left" \notin DOMAIN Rule(n)

\* BetaNode.rightVariables = collectVariables(rightNode)
RightVariables(n, i) == PatternVars(Body(n)[i])

\* BetaNode.leftVariables = collectVariables(leftNode): the left and right
\* variables of the left node, the variables of the pattern of a left node
\* that is an alpha node, and the empty Set for a pass-through node
RECURSIVE LeftVariables(_, _)
LeftVariables(n, i) ==
    IF IsPassThru(n, i) THEN {}
    ELSE IF i = 1 THEN PatternVars(Rule(n).left)
    ELSE LeftVariables(n, i - 1) \cup RightVariables(n, i - 1)

\* The mutant of CommonVariables: the right variables are taken for every
\* node, as they are for a pass-through node.
CommonVariablesOfRight(n, i, ord) == SortVars(RightVariables(n, i), ord)

\* The mutant of CommonVariables: a join node takes all its left variables.
CommonVariablesOfLeft(n, i, ord) ==
    IF IsPassThru(n, i) THEN SortVars(RightVariables(n, i), ord)
    ELSE SortVars(LeftVariables(n, i), ord)

\* BetaNode.commonVariables (lines 655-666)
CommonVariables(n, i, ord) ==
    IF IsPassThru(n, i) THEN SortVars(RightVariables(n, i), ord)
    ELSE SelectSeq(SortVars(LeftVariables(n, i), ord),
                   LAMBDA leftVar : leftVar \in RightVariables(n, i))

\* BetaNode.consequent
Consequent(n, i) == IF i = NumNodes(n) THEN {Rule(n).head} ELSE {}

\* BetaNode.fedByBuiltin (lines 647-649): set when the right input is a
\* built-in filter
FedByBuiltin(n, i) == IsBuiltIn(Body(n)[i])

(***************************************************************************)
(* ReteMemory: the Set itself (items) and substitutionDict, kept as the    *)
(* set of the pairs <<key, item>> with item in the bucket of key.          *)
(***************************************************************************)
EmptyMemory == [items |-> {}, subst |-> {}]

\* isinstance(x, PartialInstanciation)
IsPI(x) == "tokens" \in DOMAIN x

\* hash(x)
ItemHash(x) == x.hash

\* substitutionDict.get(key, Set())
Bucket(mem, key) == {e[2] : e \in {d \in mem.subst : d[1] = key}}

\* The mutant of ItemSetAdd: nothing is added to the Set.
ItemSetAddNothing(S, x) == S

\* Set.add: an element with the same hash already in the Set stays
ItemSetAdd(S, x) == IF \E y \in S : ItemHash(y) = ItemHash(x) THEN S ELSE S \cup {x}

\* substitutionDict.setdefault(key, Set()).add(item)
BucketAdd(subst, key, x) ==
    IF \E y \in {e[2] : e \in {d \in subst : d[1] = key}} : ItemHash(y) = ItemHash(x)
    THEN subst ELSE subst \cup {<<key, x>>}

RECURSIVE BucketAddAll(_, _, _)
BucketAddAll(subst, keys, x) ==
    IF keys = <<>> THEN subst
    ELSE BucketAddAll(BucketAdd(subst, Head(keys), x), Tail(keys), x)

\* The mutant of CommonVarKeys: an instantiation is filed under the key of
\* its first binding combination alone, and the key lists the values from
\* the last common variable to the first.
CommonVarKeysOfFirst(x, cv) ==
    LET rev == [k \in DOMAIN cv |-> cv[Len(cv) + 1 - k]]
    IN IF IsPI(x)
       THEN << [k \in DOMAIN cv |-> Get(x.bindings[1], rev[k])] >>
       ELSE << [k \in DOMAIN cv |-> Get(x.bindingDict, rev[k])] >>

\* the keys addToken files the item under: one for each binding combination
\* of a PartialInstanciation, one for a token
CommonVarKeys(x, cv) ==
    IF IsPI(x)
    THEN [b \in DOMAIN x.bindings |-> [k \in DOMAIN cv |-> Get(x.bindings[b], cv[k])]]
    ELSE << [k \in DOMAIN cv |-> Get(x.bindingDict, cv[k])] >>

\* The mutant of AddToken: the item is added without the test for an equal one.
AddTokenNoEquality(mem, x, cv) ==
    [ items |-> mem.items \cup {x},
      subst |-> mem.subst \cup {<<CommonVarKeys(x, cv)[k], x>> :
                                   k \in DOMAIN CommonVarKeys(x, cv)} ]

\* The mutant of AddToken: the bucket of the key is replaced by a Set of
\* the new item alone.
AddTokenOverwriteBucket(mem, x, cv) ==
    [ items |-> ItemSetAdd(mem.items, x),
      subst |-> {e \in mem.subst : e[1] \notin Range(CommonVarKeys(x, cv))}
                   \cup {<<CommonVarKeys(x, cv)[k], x>> : k \in DOMAIN CommonVarKeys(x, cv)} ]

\* ReteMemory.addToken, cv the commonVariables of the memory's successor
AddToken(mem, x, cv) ==
    [ items |-> ItemSetAdd(mem.items, x),
      subst |-> BucketAddAll(mem.subst, CommonVarKeys(x, cv), x) ]

\* ReteMemory.union (lines 121-128): the result is a new, empty memory of
\* the same successor and position, updated with the elements of other by
\* Set._update, which does not file them in substitutionDict
Union(self, other) == [items |-> other.items, subst |-> {}]

(***************************************************************************)
(* The state of a network as a value: the memories of its nodes, what the  *)
(* network object has recorded of the firings.                             *)
(***************************************************************************)
Nil == [nil |-> TRUE]

InitialState(n, ord) ==
    [ net           |-> n,
      ord           |-> ord,
      commonVariables |-> [i \in 1..NumNodes(n) |-> CommonVariables(n, i, ord)],
      error         |-> "none",
      memL          |-> [i \in 1..NumNodes(n) |-> EmptyMemory],
      memR          |-> [i \in 1..NumNodes(n) |-> EmptyMemory],
      firings       |-> 0,
      conflictSet   |-> {},
      fireLog       |-> {},
      inferredFacts |-> {} ]

\* BetaNode._oppositeMemory (lines 727-731)
OppositeMemory(ns, i, source) ==
    IF source = LEFT_MEMORY THEN ns.memR[i] ELSE ns.memL[i]

\* The mutant of CheckNullActivation: an activation is null also when the
\* node has no common variable.
CheckNullActivationNoOverlap(ns, i, source) ==
    /\ ~FedByBuiltin(ns.net, i)
    /\ (OppositeMemory(ns, i, source).items = {} \/ ns.commonVariables[i] = <<>>)

\* BetaNode.checkNullActivation (lines 736-744)
CheckNullActivation(ns, i, source) ==
    /\ ~FedByBuiltin(ns.net, i)
    /\ OppositeMemory(ns, i, source).items = {}

\* the tokens of an instantiation without their object identity
StripTokens(tokens) == {Strip(t) : t \in tokens}

\* the head with the variables the binding has replaced by their values
Substitute(head, binding) ==
    [k \in 1..3 |-> IF head[k] \in DOMAIN binding THEN binding[head[k]] ELSE head[k]]

\* Network.fireConsequent: the doctest's NetworkStub (lines 579-585) counts
\* the call and adds the instantiation to the conflict set; the network
\* adds the head, instantiated by each binding combination, to inferredFacts
FireConsequent(ns, p, i) ==
    LET key == [node |-> i, tokens |-> StripTokens(p.tokens)]
        old == {e \in ns.fireLog : e.key = key}
    IN [ns EXCEPT
          !.firings = @ + 1,
          !.conflictSet = PISetAdd(@, p),
          !.fireLog = (@ \ old) \cup
              {[key |-> key,
                count |-> IF old = {} THEN 1 ELSE (CHOOSE e \in old : TRUE).count + 1]},
          !.inferredFacts = @ \cup
              {Substitute(h, p.bindings[b]) :
                  <<h, b>> \in Consequent(ns.net, i) \X DOMAIN p.bindings}]

\* matches.add for each element of a list
RECURSIVE PISetAddAll(_, _)
PISetAddAll(S, q) ==
    IF q = <<>> THEN S ELSE PISetAddAll(PISetAdd(S, Head(q)), Tail(q))

\* iteration order of a Set of PartialInstanciations
RECURSIVE PISeq(_)
PISeq(S) ==
    IF S = {} THEN <<>>
    ELSE LET x == CHOOSE y \in S : \A z \in S : y.hash <= z.hash
         IN <<x>> \o PISeq(S \ {x})

\* the common variables the instantiation has not joined yet (lines 839, 885)
UnjoinedCommon(ns, i, p) ==
    SelectSeq(ns.commonVariables[i],
              LAMBDA x : x \notin DOMAIN p.joinedBindings)

\* The mutant of LeftMatches: a left activation finds no match.
LeftMatchesNone(ns, i, p) == {}

\* The mutant of LeftMatches: every token of the right memory is joined,
\* whatever key it is filed under.
LeftMatchesAnyKey(ns, i, p) ==
    LET rWMEs == TokenSeq(ns.memR[i].items)
    IN PISetAddAll({}, [k \in DOMAIN rWMEs |->
          NewJoinIter(p, rWMEs[k], UnjoinedCommon(ns, i, p), ns.ord)])

\* propagate, left activation without a built-in (lines 816-840): for each
\* binding combination, the right tokens filed under its common-variable
\* values are joined with the instantiation
LeftMatches(ns, i, p) ==
    LET cv == ns.commonVariables[i]
        keyOf(b) == LET present == SelectSeq(cv, LAMBDA var : var \in DOMAIN b)
                    IN [k \in DOMAIN present |-> b[present[k]]]
        joins == [b \in DOMAIN p.bindings |->
                    LET rWMEs == TokenSeq(Bucket(ns.memR[i], keyOf(p.bindings[b])))
                    IN [k \in DOMAIN rWMEs |->
                          NewJoinIter(p, rWMEs[k], UnjoinedCommon(ns, i, p), ns.ord)]]
        RECURSIVE All(_, _)
        All(S, b) == IF b > Len(joins) THEN S ELSE All(PISetAddAll(S, joins[b]), b + 1)
    IN All({}, 1)

\* The mutant of RightMatches: every instantiation of the left memory is
\* joined, whatever key it is filed under.
RightMatchesAnyKey(ns, i, wme) ==
    LET lPartInsts == PISeq(ns.memL[i].items)
    IN PISetAddAll({}, [k \in DOMAIN lPartInsts |->
          NewJoinIter(lPartInsts[k], wme, UnjoinedCommon(ns, i, lPartInsts[k]), ns.ord)])

\* propagate, right activation (lines 874-887): the instantiations of the
\* left memory filed under the token's common-variable values are joined
\* with the token
RightMatches(ns, i, wme) ==
    LET cv == ns.commonVariables[i]
        key == [k \in DOMAIN cv |-> wme.bindingDict[cv[k]]]
        lPartInsts == PISeq(Bucket(ns.memL[i], key))
    IN PISetAddAll({}, [k \in DOMAIN lPartInsts |->
          IF ~IsPI(lPartInsts[k])
          THEN MakePI({lPartInsts[k]}, lPartInsts[k].bindingDict, ns.ord)
          ELSE NewJoinIter(lPartInsts[k], wme, UnjoinedCommon(ns, i, lPartInsts[k]),
                           ns.ord)])

\* the variable operands of the filter that the instantiation has not joined
\* (lines 802-805)
NewConsistentBindings(filter, p) ==
    SelectSeq(<<filter[3], filter[4]>>,
              LAMBDA term : term \in VarNames /\ term \notin DOMAIN p.joinedBindings)

\* "isinstance(lhs, Variable) and binding[lhs] or lhs" (lines 810-811)
Operand(term, binding) ==
    IF term \in VarNames /\ binding[term] /= None THEN binding[term] ELSE term

\* binding[lhs] or binding[rhs] of a variable that a binding combination lacks
BuiltinRaises(filter, p) ==
    \E b \in DOMAIN p.bindings :
        \E term \in {filter[3], filter[4]} \cap VarNames : term \notin DOMAIN p.bindings[b]

\* filter.func(lhs, rhs)
Func(name, lhs, rhs) == IF name = "notEqualTo" THEN lhs /= rhs ELSE lhs = rhs

\* The mutant of BuiltinMatches: the instantiation is a match whatever the
\* built-in gives.
BuiltinMatchesAlways(filter, p) == {p}

\* propagate, left activation of a node fed by a built-in (lines 806-814):
\* the instantiation is a match when the built-in holds for a combination
BuiltinMatches(filter, p) ==
    IF \E b \in DOMAIN p.bindings :
          Func(filter[2], Operand(filter[3], p.bindings[b]),
               Operand(filter[4], p.bindings[b]))
    THEN {p} ELSE {}

\* The mutant of ReplaceItem: the changed object takes the place of every
\* item of the memory.
ReplaceEveryItem(mem, p, q) ==
    [ items |-> {q}, subst |-> {<<e[1], q>> : e \in mem.subst} ]

\* the object p, which the memory holds, has been changed in place into q
ReplaceItem(mem, p, q) ==
    [ items |-> {IF x = p THEN q ELSE x : x \in mem.items},
      subst |-> {<<e[1], IF e[2] = p THEN q ELSE e[2]>> : e \in mem.subst} ]

\* "[wme.bindingDict[var] for var in self.commonVariables]" (line 875) with
\* a variable the token does not bind
RightKeyMissing(ns, i, wme) ==
    \E var \in Range(ns.commonVariables[i]) : var \notin DOMAIN wme.bindingDict

\* propagate without a propagation source (lines 776-789): for each binding
\* combination, up to the first that lacks a common variable, the
\* instantiation made of the tokens filed in both memories under the
\* common-variable values, when there is one.  [pis, raised]
SignalJoins(ns, i, p) ==
    LET cv == ns.commonVariables[i]
        lacks(b) == \E var \in Range(cv) : var \notin DOMAIN p.bindings[b]
        sound == {b \in DOMAIN p.bindings : \A c \in 1..b : ~lacks(c)}
        commonVals(b) == [k \in DOMAIN cv |-> p.bindings[b][cv[k]]]
        both(b) == SetToSeq(Bucket(ns.memL[i], commonVals(b)))
                       \o SetToSeq(Bucket(ns.memR[i], commonVals(b)))
        unrolled(q) == [k \in DOMAIN q |->
                          IF IsPI(q[k]) THEN TokenSeq(q[k].tokens) ELSE <<q[k]>>]
        RECURSIVE Flat(_)
        Flat(q) == IF q = <<>> THEN <<>> ELSE Head(q) \o Flat(Tail(q))
        joinedTokens(b) == AddTokens({}, Flat(unrolled(both(b))))
        withTokens == SelectSeq([b \in 1..Cardinality(sound) |-> b],
                                LAMBDA b : joinedTokens(b) /= {})
    IN [ pis |-> [k \in DOMAIN withTokens |->
                    MakePI(joinedTokens(withTokens[k]),
                           [var \in Range(cv) |-> p.bindings[withTokens[k]][var]],
                           ns.ord)],
         raised |-> Cardinality(sound) < Len(p.bindings) ]

\* the exception leaves the handlers with what they had changed
Raise(ns, err) == [ns EXCEPT !.error = err]

\* BetaNode.propagate of node i (lines 746-889) up to its calls of
\* _activate: the state, the instantiations it activates the node with, in
\* order, and whether it raises after that.  The right input of every node
\* of the model is an alpha node or a built-in: the join of an instantiation
\* with an instantiation of the right memory (lines 842-862) is left out.
Matches(ns, i, propagationSource, partialInst, wme) ==
    LET out(s, q, r) == [ns |-> s, pis |-> q, raiseAfter |-> r]
        signalled(joins) == out(ns, joins.pis, joins.raised)
        filter == Body(ns.net)[i]
        filtered(q, changed) ==
            IF BuiltinRaises(filter, q)
            THEN out(Raise(changed, "KeyError"), <<>>, FALSE)
            ELSE out(changed, PISeq(BuiltinMatches(filter, q)), FALSE)
        bound(q) == filtered(q, [ns EXCEPT !.memL[i] = ReplaceItem(@, partialInst, q)])
    IN IF IsPassThru(ns.net, i)
       THEN IF Consequent(ns.net, i) /= {}
            THEN IF partialInst /= Nil
                 THEN out(Raise(ns, "AssertionError"), <<>>, FALSE)
                 ELSE out(ns, <<MakePI({wme}, wme.bindingDict, ns.ord)>>, FALSE)
            ELSE IF ns.memR[i].items /= {}
            THEN IF wme /= Nil
                 THEN out(ns, <<MakePI({wme}, wme.bindingDict, ns.ord)>>, FALSE)
                 ELSE IF partialInst /= Nil THEN out(ns, <<partialInst>>, FALSE)
                 ELSE out(ns, <<>>, FALSE)
            ELSE out(ns, <<>>, FALSE)
       ELSE IF propagationSource = NoSource
       THEN IF partialInst = Nil THEN out(ns, <<>>, FALSE)
            ELSE signalled(SignalJoins(ns, i, partialInst))
       ELSE IF propagationSource = LEFT_MEMORY
       THEN IF FedByBuiltin(ns.net, i)
            THEN bound(AddConsistentBinding(partialInst,
                           NewConsistentBindings(filter, partialInst), ns.ord))
            ELSE out(ns, PISeq(LeftMatches(ns, i, partialInst)), FALSE)
       ELSE IF RightKeyMissing(ns, i, wme)
       THEN out(Raise(ns, "KeyError"), <<>>, FALSE)
       ELSE out(ns, PISeq(RightMatches(ns, i, wme)), FALSE)

\* The mutant of Deliver: the instantiation is not added to a memory.
DeliverNowhere(ns, i, p) == ns

\* _activate of node i, "memory.addToken(partInstOrList)" (line 707): the
\* instantiation is added to the memory of the node below that node i feeds
Deliver(ns, i, p) ==
    IF i = NumNodes(ns.net) THEN ns
    ELSE IF DescendentPosition(ns.net, i) = LEFT_MEMORY
    THEN [ns EXCEPT !.memL[i + 1] = AddToken(@, p, ns.commonVariables[i + 1])]
    ELSE [ns EXCEPT !.memR[i + 1] = AddToken(@, p, ns.commonVariables[i + 1])]

\* _activate of node i, line 708: the node below is activated
Awakes(ns, i, p) ==
    /\ i < NumNodes(ns.net)
    /\ \/ IsPassThru(ns.net, i + 1)
       \/ ~CheckNullActivation(Deliver(ns, i, p), i + 1, DescendentPosition(ns.net, i))

\* the propagationSource of lines 709-714
SourceOf(n, i) ==
    IF DescendentPosition(n, i) = LEFT_MEMORY THEN LEFT_MEMORY ELSE NoSource

RECURSIVE Activate(_, _, _), ActivateAll(_, _, _), Propagate(_, _, _, _, _)

\* BetaNode._activate of node i (lines 697-717): the instantiation is added
\* to the left memory of the node below, that node is left-activated unless
\* the activation is null, and the consequent of node i fires
Activate(ns, i, p) ==
    LET below(added) ==
            IF Awakes(ns, i, p)
            THEN Propagate(added, i + 1, SourceOf(ns.net, i), p, Nil)
            ELSE added
        fired(down) ==
            IF down.error = "none" /\ Consequent(ns.net, i) /= {}
            THEN FireConsequent(down, p, i) ELSE down
    IN fired(below(Deliver(ns, i, p)))

\* "for pInst in matches: self._activate(pInst)"
ActivateAll(ns, i, matches) ==
    IF matches = <<>> \/ ns.error /= "none" THEN ns
    ELSE ActivateAll(Activate(ns, i, Head(matches)), i, Tail(matches))

\* BetaNode.propagate of node i (lines 746-889)
Propagate(ns, i, propagationSource, partialInst, wme) ==
    LET raised(m, after) ==
            IF m.raiseAfter /\ after.error = "none" THEN Raise(after, "KeyError")
            ELSE after
        activated(m) == raised(m, ActivateAll(m.ns, i, m.pis))
    IN activated(Matches(ns, i, propagationSource, partialInst, wme))

\* The mutant of AlphaActivate: the key of the token is built by popping the
\* variables off the node's commonVariables list.
AlphaActivateConsuming(ns, a, token) ==
    LET right(added) ==
            IF IsPassThru(ns.net, a) \/ ~CheckNullActivation(added, a, RIGHT_MEMORY)
            THEN Propagate(added, a, RIGHT_MEMORY, Nil, token)
            ELSE added
    IN right([ns EXCEPT !.memR[a] = AddToken(@, token, ns.commonVariables[a]),
                        !.commonVariables[a] = <<>>])

\* AlphaNode.activate of the alpha node of pattern a: the token is added to
\* the right memory of node a, and the node is right-activated unless the
\* activation is null
AlphaActivate(ns, a, token) ==
    LET right(added) ==
            IF IsPassThru(ns.net, a) \/ ~CheckNullActivation(added, a, RIGHT_MEMORY)
            THEN Propagate(added, a, RIGHT_MEMORY, Nil, token)
            ELSE added
    IN right([ns EXCEPT !.memR[a] = AddToken(@, token, ns.commonVariables[a])])

\* feeding one fact: every alpha node whose pattern the fact matches is
\* activated with a new token
RECURSIVE FeedFrom(_, _, _, _)
FeedFrom(ns, a, fact, gen) ==
    IF a > NumNodes(ns.net) \/ ns.error /= "none" THEN ns
    ELSE FeedFrom(IF Match(Body(ns.net)[a], fact)
                  THEN AlphaActivate(ns, a, BindVariables(fact, Body(ns.net)[a], gen))
                  ELSE ns,
                  a + 1, fact, gen)

FeedFact(ns, fact, gen) == FeedFrom([ns EXCEPT !.error = "none"], 1, fact, gen)

\* the state after the facts of the list have been fed, once each, to a new
\* network
RECURSIVE FeedList(_, _)
FeedList(ns, facts) ==
    IF facts = <<>> THEN ns ELSE FeedList(FeedFact(ns, Head(facts), 0), Tail(facts))

(***************************************************************************)
(* The network as a state machine: a rule and a dict order are fixed, and  *)
(* each step feeds one fact.                                               *)
(***************************************************************************)
Current ==
    [ net           |-> net,
      ord           |-> varOrder,
      commonVariables |-> commonVariables,
      error         |-> error,
      memL          |-> memL,
      memR          |-> memR,
      firings       |-> firings,
      conflictSet   |-> conflictSet,
      fireLog       |-> fireLog,
      inferredFacts |-> inferredFacts ]

\* the facts fed so far, and the number of feeds of a fact already fed
Fed == {f \in DOMAIN fedCount : fedCount[f] > 0}
Refeeds == nFeeds - Cardinality(Fed)

Init ==
    /\ net \in NetNames
    /\ varOrder \in VarOrders
    /\ commonVariables = InitialState(net, varOrder).commonVariables
    /\ error = "none"
    /\ memL = InitialState(net, varOrder).memL
    /\ memR = InitialState(net, varOrder).memR
    /\ firings = 0
    /\ conflictSet = {}
    /\ fireLog = {}
    /\ inferredFacts = {}
    /\ fedCount = [f \in Facts(net) |-> 0]
    /\ nFeeds = 0
    /\ script = 0
    /\ pending = <<>>
    /\ PIIdle
    /\ CSMIdle
    /\ BuildIdle
    /\ N3Idle

\* the fact is fed to the network; script counts the facts fed as long as
\* they are fed once each in the order of Rule(net).facts
Feed(fact) ==
    /\ fedCount[fact] = 0 \/ Refeeds < MaxRefeed
    /\ \E after \in {FeedFact(Current, fact, fedCount[fact])} :
          /\ memL' = after.memL
          /\ memR' = after.memR
          /\ firings' = after.firings
          /\ conflictSet' = after.conflictSet
          /\ fireLog' = after.fireLog
          /\ inferredFacts' = after.inferredFacts
          /\ commonVariables' = after.commonVariables
          /\ error' = after.error
    /\ fedCount' = [fedCount EXCEPT ![fact] = @ + 1]
    /\ nFeeds' = nFeeds + 1
    /\ script' = IF script >= 0 /\ script < Len(Rule(net).facts)
                    /\ Rule(net).facts[script + 1] = fact
                 THEN script + 1 ELSE -1
    /\ UNCHANGED <<net, varOrder, pending, piVars, buildVars, n3Vars, csmVars>>

Next == \E fact \in Facts(net) : Feed(fact)

Spec == Init /\ [][Next]_vars

\* the same machine over the networks with and without a built-in filter
InitFilter ==
    /\ net \in NetNames \cup FilterNets
    /\ varOrder \in VarOrders
    /\ commonVariables = InitialState(net, varOrder).commonVariables
    /\ error = "none"
    /\ memL = InitialState(net, varOrder).memL
    /\ memR = InitialState(net, varOrder).memR
    /\ firings = 0
    /\ conflictSet = {}
    /\ fireLog = {}
    /\ inferredFacts = {}
    /\ fedCount = [f \in Facts(net) |-> 0]
    /\ nFeeds = 0
    /\ script = 0
    /\ pending = <<>>
    /\ PIIdle
    /\ CSMIdle
    /\ BuildIdle
    /\ N3Idle

SpecFilter == InitFilter /\ [][Next]_vars

(***************************************************************************)
(* The propagation call by call: pending is the stack of the calls of      *)
(* AlphaNode.activate and BetaNode._activate that have been made and have  *)
(* not started yet, the next one first.  A feed starts when no call is     *)
(* pending; each step runs one call up to the calls it makes.  Only        *)
(* terminal nodes carry a consequent, so that firing it before the calls   *)
(* the step makes are run is firing it after them.                         *)
(***************************************************************************)
Frame(kind, node, item) == [kind |-> kind, node |-> node, item |-> item]

\* the calls of _activate of node i that a propagate call makes, and the
\* error it raises after them
CallFrames(m, i) ==
    [k \in DOMAIN m.pis |-> Frame("activate", i, m.pis[k])]
        \o (IF m.raiseAfter THEN <<Frame("raise", i, Nil)>> ELSE <<>>)

\* the calls of AlphaNode.activate that feeding the fact makes
AlphaFrames(n, fact, gen) ==
    LET hit == SelectSeq([a \in 1..NumNodes(n) |-> a],
                         LAMBDA a : Match(Body(n)[a], fact))
    IN [k \in DOMAIN hit |->
           Frame("alpha", hit[k], BindVariables(fact, Body(n)[hit[k]], gen))]

\* The mutant of Returns: a call that makes no call is pending again, behind
\* the others.
ReturnsAndCallsAgain(frames, rest) ==
    IF frames = <<>> THEN Tail(rest) \o <<Head(rest)>> ELSE frames \o Tail(rest)

\* the stack when the first call of rest has been run and has made the
\* calls frames
Returns(frames, rest) == frames \o Tail(rest)

\* the state when the call has added its item to the memory it feeds:
\* AlphaNode.activate to the right memory of its node, _activate of node i
\* to the memory of the node below (line 707)
Entered(ns, f) ==
    IF f.kind = "alpha"
    THEN [ns EXCEPT !.memR[f.node] = AddToken(@, f.item, ns.commonVariables[f.node])]
    ELSE IF f.kind = "activate" THEN Deliver(ns, f.node, f.item)
    ELSE ns

\* one call from the state below that it has entered: AlphaNode.activate,
\* or BetaNode._activate (lines 697-717), with the propagate of the node it
\* activates up to the calls of _activate that makes.  [ns, frames]
RunCall(ns, below, f) ==
    IF f.kind = "raise" THEN [ns |-> Raise(ns, "KeyError"), frames |-> <<>>]
    ELSE IF f.kind = "alpha"
    THEN IF IsPassThru(ns.net, f.node)
            \/ ~CheckNullActivation(below, f.node, RIGHT_MEMORY)
         THEN LET right(m) == [ns |-> m.ns, frames |-> CallFrames(m, f.node)]
              IN right(Matches(below, f.node, RIGHT_MEMORY, Nil, f.item))
         ELSE [ns |-> below, frames |-> <<>>]
    ELSE IF f.kind = "signal"
    THEN LET signalled(m) == [ns |-> m.ns, frames |-> CallFrames(m, f.node)]
         IN signalled(Matches(below, f.node, NoSource, f.item, Nil))
    ELSE LET fired(down) ==
                 IF down.error = "none" /\ Consequent(ns.net, f.node) /= {}
                 THEN FireConsequent(down, f.item, f.node) ELSE down
             left(m) == [ns |-> fired(m.ns), frames |-> CallFrames(m, f.node + 1)]
         IN IF Awakes(ns, f.node, f.item)
            THEN left(Matches(below, f.node + 1, SourceOf(ns.net, f.node),
                              f.item, Nil))
            ELSE [ns |-> fired(below), frames |-> <<>>]

\* the fact is handed to the alpha nodes
StartFeed(fact) ==
    /\ pending = <<>>
    /\ fedCount[fact] = 0 \/ Refeeds < MaxRefeed
    /\ pending' = AlphaFrames(net, fact, fedCount[fact])
    /\ error' = "none"
    /\ fedCount' = [fedCount EXCEPT ![fact] = @ + 1]
    /\ nFeeds' = nFeeds + 1
    /\ script' = IF script >= 0 /\ script < Len(Rule(net).facts)
                    /\ Rule(net).facts[script + 1] = fact
                 THEN script + 1 ELSE -1
    /\ UNCHANGED <<net, varOrder, commonVariables, memL, memR, firings, conflictSet,
                   fireLog, inferredFacts, piVars, buildVars, n3Vars, csmVars>>

\* the next pending call runs; an error unwinds every pending call
Step ==
    /\ pending /= <<>>
    /\ \E ns \in {Current}, f \in {Head(pending)} :
       \E below \in {Entered(ns, f)} :
       \E out \in {RunCall(ns, below, f)} :
          /\ memL' = out.ns.memL
          /\ memR' = out.ns.memR
          /\ firings' = out.ns.firings
          /\ conflictSet' = out.ns.conflictSet
          /\ fireLog' = out.ns.fireLog
          /\ inferredFacts' = out.ns.inferredFacts
          /\ commonVariables' = out.ns.commonVariables
          /\ error' = out.ns.error
          /\ pending' = IF out.ns.error /= "none" THEN <<>>
                        ELSE Returns(out.frames, pending)
    /\ UNCHANGED <<net, varOrder, fedCount, nFeeds, script, piVars, buildVars, n3Vars, csmVars>>

NextStep == (\E fact \in Facts(net) : StartFeed(fact)) \/ Step

\* The interpreter goes on: a call that is pending is run.  This is weak
\* fairness of Step, WF_vars(Step), written with the guard of Step in the
\* place of ENABLED <<Step>>_vars: a call is pending exactly when Step is
\* enabled, and running it changes pending.
StepFairness == []<>(pending = <<>>) \/ []<><<Step>>_vars

SpecStep == InitFilter /\ [][NextStep]_vars /\ StepFairness

(***************************************************************************)
(* A join node that is signalled by a beta node on its right.              *)
(***************************************************************************)
\* memory.successor.propagate(None, debug, partInstOrList) (line 714), the
\* call that _activate makes for a descendentMemory on the right: node i is
\* called with an instantiation that the network holds and whose tokens bind
\* the node's common variables.  A signal is counted with the feeds, and
\* takes the place of a re-feed.
Signal ==
    /\ pending = <<>>
    /\ Refeeds < MaxRefeed
    /\ nFeeds' = nFeeds + 1
    /\ \E i \in 1..NumNodes(net) :
       \E p \in UNION {memL[j].items : j \in 1..NumNodes(net)} :
          /\ ~IsPassThru(net, i)
          /\ Range(commonVariables[i]) \subseteq TokenVars(p.tokens)
          /\ pending' = <<Frame("signal", i, p)>>
    /\ error' = "none"
    /\ UNCHANGED <<net, varOrder, commonVariables, memL, memR, firings, conflictSet,
                   fireLog, inferredFacts, fedCount, script, piVars, buildVars,
                   n3Vars, csmVars>>

SpecSignal == InitFilter /\ [][NextStep \/ Signal]_vars

(***************************************************************************)
(* Memories that are reset between two feeds.                              *)
(***************************************************************************)
\* ReteMemory.reset (lines 178-180) of the left or of the right memory of a
\* node, called when no propagation is under way: self.clear() and a new,
\* empty substitutionDict.  A reset is counted with the feeds, and takes the
\* place of a re-feed.
Reset ==
    /\ pending = <<>>
    /\ Refeeds < MaxRefeed
    /\ nFeeds' = nFeeds + 1
    /\ \E i \in 1..NumNodes(net) :
          \/ memL' = [memL EXCEPT ![i] = EmptyMemory] /\ memR' = memR
          \/ memR' = [memR EXCEPT ![i] = EmptyMemory] /\ memL' = memL
    /\ UNCHANGED <<net, varOrder, commonVariables, firings, conflictSet, fireLog,
                   inferredFacts, error, fedCount, script, pending, piVars,
                   buildVars, n3Vars, csmVars>>

SpecReset == InitFilter /\ [][NextStep \/ Reset]_vars

(***************************************************************************)
(* A join node whose left input is an alpha node: the tokens of the left   *)
(* pattern are filed in its left memory as they are, and the facts fed     *)
(* reach its right input.                                                  *)
(***************************************************************************)
InitAlphaJoin ==
    /\ net = "AlphaJoin"
    /\ varOrder \in VarOrders
    /\ commonVariables = InitialState(net, varOrder).commonVariables
    /\ error = "none"
    /\ memL = InitialState(net, varOrder).memL
    /\ memR = InitialState(net, varOrder).memR
    /\ firings = 0
    /\ conflictSet = {}
    /\ fireLog = {}
    /\ inferredFacts = {}
    /\ fedCount = [f \in Facts(net) |-> 0]
    /\ nFeeds = 0
    /\ script = 0
    /\ pending = <<>>
    /\ PIIdle
    /\ CSMIdle
    /\ BuildIdle
    /\ N3Idle

\* joinNode1.memories[LEFT_MEMORY].addToken(token) (lines 166-176) with the
\* token of the left alpha node for the fact, the memory that
\* connectIncomingNodes (lines 677-679) makes a descendentMemory of that node
AddTokenLeft(fact) ==
    /\ pending = <<>>
    /\ Match(Rule(net).left, fact)
    /\ memL' = [memL EXCEPT ![1] = AddToken(@, BindVariables(fact, Rule(net).left, 0),
                                            commonVariables[1])]
    /\ UNCHANGED <<net, varOrder, commonVariables, memR, firings, conflictSet, fireLog,
                   inferredFacts, error, fedCount, nFeeds, script, pending, piVars,
                   buildVars, n3Vars, csmVars>>

SpecAlphaJoin ==
    InitAlphaJoin /\ [][(\E fact \in Facts(net) : AddTokenLeft(fact)) \/ NextStep]_vars

(***************************************************************************)
(* CalculateStratifiedModel (Negation.py, lines 27-69) on the graph of the *)
(* atomic-negation test, step by step: the positive rules are built into   *)
(* the network and the graph is fed; each solution of the query of the     *)
(* negative rule Baz(?X) :- not Bar(?X) adds the ground head to            *)
(* inferredFacts and feeds it; the last pass clears inferredFacts of the   *)
(* assertions "that cross the individual, concept, relation divide".       *)
(***************************************************************************)
\* what InfixOWL has put in the graph for Bar, Baz = ~Bar and OtherClass once
\* NormalFormReduction has run
Declarations ==
    { <<"Bar", "type", "Class">>, <<"Baz", "type", "Class">>,
      <<"OtherClass", "type", "Class">>, <<"Baz", "disjointWith", "Bar">> }

\* the extents: an individual is of any of the classes Bar, Baz and OtherClass
Extents == {"individual", "individual2"} \X {"type"} \X {"Bar", "Baz", "OtherClass"}

\* the rule MapDLPtoNetwork leaves out of the network (ignoreNegativeStratus)
NegativeRule == [head |-> <<"X", "type", "Baz">>, naf |-> {<<"X", "type", "Bar">>}]

\* "ignored" (lines 28-32): the negative rules, in the order the loop of
\* line 36 takes them; the second, Quux(?X) :- not Qux(?X), negates the head
\* of the positive rule
Ignored ==
    << NegativeRule,
       [head |-> <<"X", "type", "Quux">>, naf |-> {<<"X", "type", "Qux">>}] >>

\* The mutant of QueryRows: the negated atoms are not looked at.
QueryRowsOfPhantom(graph, rule) == graph

\* the rows of the query of StratifiedSPARQL (lines 93-173) for a rule without
\* positive literals: the phantom pattern binds the head's variable to the
\* subject of each triple; a row is kept when the OPTIONAL pattern of the
\* negated atoms does not match for that subject.  A row is named by the
\* triple that gives it.
QueryRows(graph, rule) ==
    {t \in graph : \A atom \in rule.naf : Substitute(atom, [X |-> t[1]]) \notin graph}

\* "head.ground(solutions); fact = head.toRDFTuple()" (lines 50-52)
GroundHead(rule, t) == Substitute(rule.head, [X |-> t[1]])

\* The mutant of Crossing: every rdf:type fact is cleared.
CrossingAnyType(graph, facts) == {f \in facts : f[2] = "type"}

\* lines 58-68: the rdf:type facts whose subject is a predicate of the graph
\* or is declared an owl:Class or an owl:Restriction in it
Crossing(graph, facts) ==
    {f \in facts :
        /\ f[2] = "type"
        /\ \/ f[1] \in {t[2] : t \in graph}
           \/ f[1] \in {t[1] : t \in {u \in graph : u[2] = "type"
                                          /\ u[3] \in {"Class", "Restriction"}}}}

CSMInit ==
    /\ net = "QuxOfBaz"
    /\ varOrder \in VarOrders
    /\ commonVariables = InitialState(net, varOrder).commonVariables
    /\ error = "none"
    /\ memL = InitialState(net, varOrder).memL
    /\ memR = InitialState(net, varOrder).memR
    /\ firings = 0
    /\ conflictSet = {}
    /\ fireLog = {}
    /\ inferredFacts = {}
    /\ fedCount = [f \in Facts(net) |-> 0]
    /\ nFeeds = 0
    /\ script = 0
    /\ pending = <<>>
    /\ \E extent \in SUBSET Extents : ontGraph = Declarations \cup extent
    /\ stratum = [phase |-> "positive", rows |-> ontGraph, i |-> 0]
    /\ PIIdle
    /\ BuildIdle
    /\ N3Idle

\* the state of the network variables after a feed
Fedback(after) ==
    /\ memL' = after.memL
    /\ memR' = after.memR
    /\ firings' = after.firings
    /\ conflictSet' = after.conflictSet
    /\ fireLog' = after.fireLog
    /\ inferredFacts' = after.inferredFacts
    /\ commonVariables' = after.commonVariables
    /\ error' = after.error

\* line 35, one token of the graph: the network of the positive rules is fed
\* the triple
FeedGraph(triple) ==
    /\ stratum.phase = "positive"
    /\ triple \in stratum.rows
    /\ \E after \in {FeedFact(Current, triple, 0)} : Fedback(after)
    /\ stratum' = [stratum EXCEPT !.rows = @ \ {triple}]
    /\ UNCHANGED <<net, varOrder, fedCount, nFeeds, script, pending, ontGraph,
                   piVars, buildVars, n3Vars>>

\* lines 36-42: the graph has been fed, or the rows of a negative rule are
\* exhausted; the query of the next negative rule is made
Query ==
    /\ stratum.phase \in {"positive", "negative"}
    /\ stratum.rows = {}
    /\ stratum.i < Len(Ignored)
    /\ stratum' = [phase |-> "negative",
                   rows |-> QueryRows(ontGraph, Ignored[stratum.i + 1]),
                   i |-> stratum.i + 1]
    /\ UNCHANGED <<netVars, ontGraph, piVars, buildVars, n3Vars>>

\* lines 43-54, one row of the query: the ground head is added to
\* inferredFacts and fed to the network
Solution(rt) ==
    /\ stratum.phase = "negative"
    /\ rt \in stratum.rows
    /\ \E fact \in {GroundHead(Ignored[stratum.i], rt)} :
          /\ \E after \in {FeedFact([Current EXCEPT !.inferredFacts = @ \cup {fact}],
                                     fact, fedCount[fact])} : Fedback(after)
          /\ fedCount' = [fedCount EXCEPT ![fact] = @ + 1]
    /\ nFeeds' = nFeeds + 1
    /\ stratum' = [stratum EXCEPT !.rows = @ \ {rt}]
    /\ UNCHANGED <<net, varOrder, script, pending, ontGraph, piVars, buildVars, n3Vars>>

\* lines 56-69, when the rows of the last negative rule are exhausted
ClearCrossing ==
    /\ stratum.phase = "negative"
    /\ stratum.rows = {}
    /\ stratum.i = Len(Ignored)
    /\ inferredFacts' = inferredFacts \ Crossing(ontGraph, inferredFacts)
    /\ stratum' = [stratum EXCEPT !.phase = "done"]
    /\ UNCHANGED <<net, varOrder, commonVariables, memL, memR, firings, conflictSet,
                   fireLog, error, fedCount, nFeeds, script, pending, ontGraph,
                   piVars, buildVars, n3Vars>>

CalculateStratifiedModel ==
    \/ \E triple \in ontGraph : FeedGraph(triple)
    \/ Query
    \/ \E rt \in ontGraph : Solution(rt)
    \/ ClearCrossing

SpecCSM == CSMInit /\ [][CalculateStratifiedModel]_vars

(***************************************************************************)
(* The constructor of BetaNode as an operation of its own: a run           *)
(* constructs nodes from any two inputs, each None, an AlphaNode, a        *)
(* BuiltInAlphaNode or a BetaNode constructed before.                      *)
(***************************************************************************)
\* how many nodes a run constructs
MaxBuilt == 2

NoNode == [kind |-> "none", pat |-> <<>>, ref |-> 0]
AlphaInput(pat) == [kind |-> "alpha", pat |-> pat, ref |-> 0]
BuiltInInput == [kind |-> "builtin", pat |-> <<>>, ref |-> 0]
BetaInput(k) == [kind |-> "beta", pat |-> <<>>, ref |-> k]

\* the nodes a constructor call can be given
Inputs ==
    {NoNode, BuiltInInput} \cup {AlphaInput(pat) : pat \in PIPatterns}
        \cup {BetaInput(k) : k \in DOMAIN nodes}

\* The mutant of CollectVariables: a beta node shows no variable.
CollectVariablesOfAlpha(node) ==
    IF node.kind = "alpha" THEN PatternVars(node.pat) ELSE {}

\* collectVariables (lines 46-60)
CollectVariables(node) ==
    IF node.kind = "builtin" THEN {}
    ELSE IF node.kind = "alpha" THEN PatternVars(node.pat)
    ELSE IF node.kind = "beta"
    THEN nodes[node.ref].leftVariables \cup nodes[node.ref].rightVariables
    ELSE {}

\* The mutant of BetaNodeInit: the assert of line 642 is left out.
BetaNodeInitNoAssert(leftNode, rightNode, aPassThru, ord) ==
    [ error |-> IF leftNode.kind = "builtin" THEN "TypeError" ELSE "none",
      fedByBuiltin |-> IF rightNode.kind = "builtin" THEN RIGHT_MEMORY ELSE 0,
      leftVariables |-> {}, rightVariables |-> {}, commonVariables |-> <<>> ]

\* BetaNode.__init__ (lines 627-668): the error it raises, or the fields of
\* the new node.  With a built-in on the left the assert of line 642 fails
\* when the right input is a built-in too; else ReteMemory is called with
\* one tuple (line 643) and raises a TypeError.
BetaNodeInit(leftNode, rightNode, aPassThru, ord) ==
    [ error |->
          IF leftNode.kind = "builtin"
          THEN IF rightNode.kind = "builtin" THEN "AssertionError" ELSE "TypeError"
          ELSE "none",
      fedByBuiltin |-> IF rightNode.kind = "builtin" THEN RIGHT_MEMORY ELSE 0,
      leftVariables |->
          IF aPassThru THEN {} ELSE CollectVariables(leftNode),
      rightVariables |->
          IF aPassThru /\ rightNode.kind = "none" THEN {}
          ELSE CollectVariables(rightNode),
      commonVariables |->
          IF aPassThru
          THEN IF rightNode.kind = "none" THEN <<>>
               ELSE SortVars(CollectVariables(rightNode), ord)
          ELSE SelectSeq(SortVars(CollectVariables(leftNode), ord),
                         LAMBDA leftVar : leftVar \in CollectVariables(rightNode)) ]

BuildInit ==
    /\ varOrder \in VarOrders
    /\ NetIdle
    /\ PIIdle
    /\ CSMIdle
    /\ BuildIdle
    /\ N3Idle

\* BetaNode(leftNode, rightNode, aPassThru)
Construct ==
    /\ Len(nodes) < MaxBuilt
    /\ \E leftNode \in Inputs, rightNode \in Inputs, aPassThru \in BOOLEAN :
          \E new \in {BetaNodeInit(leftNode, rightNode, aPassThru, varOrder)} :
             /\ call' = [made |-> TRUE, leftNode |-> leftNode, rightNode |-> rightNode,
                         aPassThru |-> aPassThru]
             /\ error' = new.error
             /\ nodes' = IF new.error /= "none" THEN nodes
                         ELSE Append(nodes, [leftNode |-> leftNode, rightNode |-> rightNode,
                                             aPassThru |-> aPassThru,
                                             fedByBuiltin |-> new.fedByBuiltin,
                                             leftVariables |-> new.leftVariables,
                                             rightVariables |-> new.rightVariables,
                                             commonVariables |-> new.commonVariables])
    /\ UNCHANGED <<net, varOrder, commonVariables, memL, memR, firings, conflictSet,
                   fireLog, inferredFacts, fedCount, nFeeds, script, pending, piVars, n3Vars,
                   csmVars>>

SpecBuild == BuildInit /\ [][Construct]_vars

(***************************************************************************)
(* ExtendN3Rules (fuxi/lib/DLP/__init__.py): a run compiles clauses into   *)
(* the rule store and the network.  A condition is its class (And,         *)
(* Uniterm, Or) and the list of the terms that iterating it yields.        *)
(***************************************************************************)
\* how many calls of ExtendN3Rules a run makes
MaxClauses == 2
\* the largest number of conjuncts of an And
MaxConjuncts == 2

Atoms == { <<"X", "type", "Bar">>, <<"X", "type", "Baz">> }

Conditions ==
    {[type |-> "And", terms |-> q] :
        q \in UNION {[1..k -> Atoms] : k \in 0..MaxConjuncts}}
    \cup {[type |-> "Uniterm", terms |-> <<a>>] : a \in Atoms}
    \cup {[type |-> "Or", terms |-> <<a, a>>] : a \in Atoms}

\* ExtendN3Rules(network, horn_clause) (lines 164-183): the rule store, the
\* number of nodes of the network and the error raised.  lhs and rhs are new
\* BNodes; the terms of the body are stored under lhs (lines 173-174)
\* before the head is looked at (line 175); ruleStore.formulae[rhs]
\* (line 178) is missing when the head has no term.
ExtendN3Rules(rs, nn, horn_clause) ==
    LET lhs == Len(rs.formulae) + 1
        rhs == Len(rs.formulae) + 2
        withBody == [rs EXCEPT !.formulae = Append(@, horn_clause.body.terms)]
        withHead == [withBody EXCEPT !.formulae = Append(@, horn_clause.head.terms)]
    IN IF horn_clause.body.type \notin {"And", "Uniterm"}
       THEN [ruleStore |-> rs, nodes |-> nn, error |-> "AssertionError"]
       ELSE IF Len(horn_clause.body.terms) = 0
       THEN [ruleStore |-> rs, nodes |-> nn, error |-> "AssertionError"]
       ELSE IF horn_clause.head.type \notin {"And", "Uniterm"}
       THEN [ruleStore |-> withBody, nodes |-> nn, error |-> "AssertionError"]
       ELSE IF Len(horn_clause.head.terms) = 0
       THEN [ruleStore |-> withBody, nodes |-> nn, error |-> "KeyError"]
       ELSE [ruleStore |-> [withHead EXCEPT !.rules = Append(@, <<lhs, rhs>>)],
             nodes |-> nn + 2 * Len(horn_clause.body.terms),
             error |-> "none"]

N3Init ==
    /\ varOrder \in VarOrders
    /\ NetIdle
    /\ PIIdle
    /\ CSMIdle
    /\ BuildIdle
    /\ N3Idle

Extend ==
    /\ clause.calls < MaxClauses
    /\ \E body \in Conditions, head \in Conditions :
          \E out \in {ExtendN3Rules(ruleStore, networkNodes,
                                     [body |-> body, head |-> head])} :
             /\ clause' = [made |-> TRUE, calls |-> clause.calls + 1,
                           body |-> body, head |-> head]
             /\ ruleStore' = out.ruleStore
             /\ networkNodes' = out.nodes
             /\ error' = out.error
    /\ UNCHANGED <<net, varOrder, commonVariables, memL, memR, firings, conflictSet,
                   fireLog, inferredFacts, fedCount, nFeeds, script, pending, piVars, buildVars,
                   csmVars>>

SpecN3 == N3Init /\ [][Extend]_vars

(***************************************************************************)
(* MapDLPtoNetwork (fuxi/lib/DLP/__init__.py): each clause that T yields   *)
(* goes through LloydToporTransformation, and every clause that comes out  *)
(* is compiled by ExtendN3Rules.                                           *)
(***************************************************************************)
\* LloydToporTransformation(clause) (lines 240-260): the clauses the generator
\* yields, in order, and the error it raises.  A body that is an Or gives one
\* clause per disjunct (lines 249-251), a head that is a Clause moves the inner
\* body into the body (lines 252-253), a head that is an Or or a body that is
\* no Condition reaches the bare raise (lines 254-257); every other clause,
\* a clause with a conjunctive head among them, is yielded as it is
\* (lines 258-259).
LloydToporTransformation(c) ==
    IF c.body.type = "Or"
    THEN [clauses |-> [k \in 1..Len(c.body.terms) |->
                          [body |-> [type |-> "Uniterm", terms |-> <<c.body.terms[k]>>],
                           head |-> c.head]],
          error |-> "none"]
    ELSE IF c.head.type = "Clause"
    THEN [clauses |-> <<[body |-> [type |-> "And", terms |-> <<c.body, c.head.body>>],
                         head |-> c.head.head]>>,
          error |-> "none"]
    ELSE IF c.head.type = "Or" \/ c.body.type \notin {"And", "Or", "Uniterm"}
    THEN [clauses |-> <<>>, error |-> "TypeError"]
    ELSE [clauses |-> <<c>>, error |-> "none"]

\* one round of the loop of MapDLPtoNetwork (lines 156-162) for a clause of T:
\* ExtendN3Rules (line 160) runs on each clause as the generator yields it, so
\* an error of either ends the round with what was compiled before it
MapDLPtoNetwork ==
    /\ clause.calls < MaxClauses
    /\ \E body \in Conditions, head \in Conditions :
          LET tx == LloydToporTransformation([body |-> body, head |-> head])
              extended[k \in 0..Len(tx.clauses)] ==
                  IF k = 0
                  THEN [ruleStore |-> ruleStore, nodes |-> networkNodes, error |-> "none"]
                  ELSE IF extended[k - 1].error /= "none"
                  THEN extended[k - 1]
                  ELSE ExtendN3Rules(extended[k - 1].ruleStore, extended[k - 1].nodes,
                                     tx.clauses[k])
          IN \E out \in {extended[Len(tx.clauses)]} :
                /\ clause' = [made |-> TRUE, calls |-> clause.calls + 1,
                              body |-> body, head |-> head, yielded |-> tx.clauses]
                /\ ruleStore' = out.ruleStore
                /\ networkNodes' = out.nodes
                /\ error' = IF out.error /= "none" THEN out.error ELSE tx.error
    /\ UNCHANGED <<net, varOrder, commonVariables, memL, memR, firings, conflictSet,
                   fireLog, inferredFacts, fedCount, nFeeds, script, pending, piVars, buildVars,
                   csmVars>>

SpecDLP == N3Init /\ [][MapDLPtoNetwork]_vars

(***************************************************************************)
(* Claims.                                                                 *)
(***************************************************************************)
\* the facts of the tokens of an instantiation
FactsIn(p) == {t.fact : t \in p.tokens}

AllFed == Fed = Facts(net)

\* the facts fed so far, in the order of the rule's list of facts
CanonicalOrder == SelectSeq(Rule(net).facts, LAMBDA f : f \in Fed)

\* C1: in the network of the BetaNode doctest, after the six facts have been
\* fed in the doctest's order, fireConsequent has been called exactly twice,
\* once for each prop1 fact, and both instantiations bind X to Foo and hold
\* the tokens of (Foo value 2) and (Foo type Baz).
C1_Scenario1FiresTwice ==
    (net = "Scenario1" /\ script = 6) =>
        /\ firings = 2
        /\ Cardinality(conflictSet) = 2
        /\ \A e \in fireLog : e.count = 1 /\ e.key.node = 3
        /\ \A f \in {<<"Bar", "prop1", "Beezle">>, <<"Bar", "prop1", "Bundle">>} :
              Cardinality({p \in conflictSet : f \in FactsIn(p)}) = 1
        /\ \A p \in conflictSet :
              /\ \A b \in DOMAIN p.bindings :
                    "X" \in DOMAIN p.bindings[b] /\ p.bindings[b]["X"] = "Foo"
              /\ {<<"Foo", "value", "2">>, <<"Foo", "type", "Baz">>} \subseteq FactsIn(p)

C1_Witness == net = "Scenario1" /\ script = 6 /\ firings > 0

\* C2: whatever the order in which a set of facts has been fed (once each),
\* the instantiations reported to fireConsequent and the inferred facts are
\* those of the run that feeds the same facts in the order of the rule's list.
C2_FeedOrderIndependent ==
    Refeeds = 0 =>
        LET ref == FeedList(InitialState(net, varOrder), CanonicalOrder)
        IN /\ {StripTokens(p.tokens) : p \in conflictSet}
                 = {StripTokens(p.tokens) : p \in ref.conflictSet}
           /\ inferredFacts = ref.inferredFacts

C2_Witness == AllFed /\ Refeeds = 0 /\ script = -1 /\ conflictSet /= {}

\* C3: as long as the left or the right memory of a join node is empty, the
\* node has made no instantiation: the left memory of the node below is
\* empty and, for the terminal node, no consequent has fired.
C3_NullActivationMakesNothing ==
    \A i \in 2..NumNodes(net) :
        (memL[i].items = {} \/ memR[i].items = {}) =>
            IF i < NumNodes(net) THEN memL[i + 1].items = {}
            ELSE firings = 0 /\ conflictSet = {}

C3_Witness ==
    \E i, j \in 2..NumNodes(net) :
        /\ memL[i].items /= {} /\ memR[i].items = {}
        /\ memR[j].items /= {} /\ memL[j].items = {}

\* the tokens of the instantiation bind the common variables of node i to
\* the values the token w binds them to
SameCommonValues(p, w, i) ==
    \A t \in p.tokens :
        \A v \in Range(CommonVariables(net, i, varOrder)) \cap DOMAIN t.bindingDict :
            t.bindingDict[v] = w.bindingDict[v]

\* the number of calls of fireConsequent with node i and the join of p and w
FireCount(log, p, w, i) ==
    LET es == {e \in log : e.key = [node |-> i,
                                    tokens |-> StripTokens(p.tokens \cup {w})]}
    IN IF es = {} THEN 0 ELSE (CHOOSE e \in es : TRUE).count

\* C4: in a step that leaves the right memory of the terminal join node
\* empty no consequent fires; in a step that brings the later one of an
\* instantiation of its left memory and a token of its right memory with the
\* same common-variable values, the node fires with the join of the two.
C4_FiresWhenOtherSideArrives ==
    [][ LET n == NumNodes(net)
        IN /\ memR'[n].items = {} => firings' = firings
           /\ \A p \in memL'[n].items : \A w \in memR'[n].items :
                 ( /\ p \notin memL[n].items \/ w \notin memR[n].items
                   /\ SameCommonValues(p, w, n) )
                 => FireCount(fireLog', p, w, n) > FireCount(fireLog, p, w, n)
      ]_vars

\* C5: when every fact has been fed at most once, fireConsequent has been
\* called exactly once, with the terminal node, for each instantiation of
\* that node's left memory and token of its right memory that agree on the
\* common variables, and never with another node.
C5_FiresOncePerPair ==
    Refeeds = 0 =>
        LET n == NumNodes(net)
        IN /\ \A p \in memL[n].items : \A w \in memR[n].items :
                 SameCommonValues(p, w, n) => FireCount(fireLog, p, w, n) = 1
           /\ \A e \in fireLog : e.key.node = n

\* C6: feeding a fact that has been fed before changes no memory (neither a
\* membership set nor a bucket of a substitutionDict) and adds no inferred fact.
C6_RefeedAddsNothing ==
    [][ (\E f \in DOMAIN fedCount : fedCount[f] > 0 /\ fedCount'[f] > fedCount[f])
        => memL' = memL /\ memR' = memR /\ inferredFacts' = inferredFacts
      ]_vars

C6_Witness == Refeeds > 0 /\ \E e \in fireLog : e.count > 1

\* the instantiations that joins have made
Joined ==
    conflictSet \cup UNION {memL[i].items : i \in 3..NumNodes(net)}

\* C7: every binding combination of an instantiation made by a join binds
\* every variable that a token of the instantiation binds.
C7_BindingsCoverTokenVariables ==
    \A p \in Joined : \A b \in DOMAIN p.bindings :
        TokenVars(p.tokens) \subseteq DOMAIN p.bindings[b]

\* the rule of the network with the two patterns of its body swapped
Swapped == IF net = "JoinAB" THEN "JoinBA" ELSE "JoinAB"

\* C10: for a body of two patterns, the facts inferred from the facts fed so
\* far are those the network of the swapped body infers from the same facts.
C10_JoinCommutes ==
    (net \in {"JoinAB", "JoinBA"} /\ Refeeds = 0) =>
        inferredFacts =
            FeedList(InitialState(Swapped, varOrder), CanonicalOrder).inferredFacts

C10_Witness ==
    net \in {"JoinAB", "JoinBA"} /\ AllFed /\ Refeeds = 0 /\ Cardinality(inferredFacts) > 2

\* the tokens of the instantiation all have exactly one unjoined variable
AllIsolated(p) ==
    /\ Cardinality(p.tokens) >= 2
    /\ \A t \in p.tokens : Cardinality(FreeKeys(t, p.joinedBindings)) = 1

\* C8: when every token of a PartialInstanciation contributes exactly one
\* unjoined variable, no binding combination that _generateBindings derives
\* gives one value to two different unjoined variables.
C8_IsolatedValuesNotShared ==
    (piOp = "new" /\ AllIsolated(piSelf)) =>
        \A i \in DOMAIN piSelf.bindings :
            \A u, v \in DOMAIN piSelf.bindings[i] \ DOMAIN piSelf.joinedBindings :
                u /= v => piSelf.bindings[i][u] /= piSelf.bindings[i][v]

\* a token binds a variable of V to a value other than w's
Disagrees(t, w, V) ==
    \E v \in Range(V) : v \in DOMAIN t.bindingDict /\ t.bindingDict[v] /= w.bindingDict[v]

\* C9: newJoin(w, V) with V a non-empty list returns an instantiation whose
\* tokens are w and exactly the receiver's tokens that bind no variable of V
\* to a value other than w's.
C9_NewJoinKeepsAgreeingTokens ==
    (piOp = "newJoin" /\ piArg[2] /= <<>>) =>
        piOut.tokens = {t \in piSelf.tokens : ~Disagrees(t, piArg[1], piArg[2])}
                           \cup {piArg[1]}

\* the hashes of the items of a memory, and the <<key, hash>> pairs of its
\* substitutionDict
MemberHashes(mem) == {ItemHash(x) : x \in mem.items}
BucketHashes(mem) == {<<e[1], ItemHash(e[2])>> : e \in mem.subst}

\* C11: in every step of the propagation, every item of the membership set of
\* a memory and of a bucket of its substitutionDict is still there after the
\* step.
C11_MemoriesOnlyGrow ==
    [][ \A i \in DOMAIN memL :
          /\ MemberHashes(memL[i]) \subseteq MemberHashes(memL'[i])
          /\ BucketHashes(memL[i]) \subseteq BucketHashes(memL'[i])
          /\ MemberHashes(memR[i]) \subseteq MemberHashes(memR'[i])
          /\ BucketHashes(memR[i]) \subseteq BucketHashes(memR'[i])
      ]_vars

C11_Witness ==
    \E i \in DOMAIN memL :
        /\ \E d, e \in memR[i].subst : d[1] = e[1] /\ ItemHash(d[2]) /= ItemHash(e[2])
        /\ \E d, e \in memL[i].subst : d[1] = e[1] /\ ItemHash(d[2]) /= ItemHash(e[2])

\* C13: the commonVariables list of every node has the content and the order
\* it got at construction, in every state and across every step.
C13_CommonVariablesFixed ==
    [][ /\ commonVariables' = commonVariables
        /\ \A i \in DOMAIN commonVariables :
              commonVariables[i] = CommonVariables(net, i, varOrder)
      ]_vars

C13_Witness ==
    \E i \in DOMAIN commonVariables :
        /\ Len(commonVariables[i]) > 0
        /\ memL[i].items /= {} /\ memR[i].items /= {}
        /\ i < NumNodes(net) /\ memL[i + 1].items /= {}

Orders(S) == {q \in [1..Cardinality(S) -> S] : Range(q) = S}

\* C14: an instantiation built from the tokens of another one has the same
\* hash and is equal to it, whatever the order of its tokens and whatever
\* its joinedBindings.
C14_SameTokensSameHash ==
    piOp = "new" =>
        /\ \A q \in Orders(piSelf.tokens) : HashOfList(q) = piSelf.hash
        /\ \A jb \in PIBindings :
              /\ MakePI(piSelf.tokens, jb, varOrder).hash = piSelf.hash
              /\ PIEq(MakePI(piSelf.tokens, jb, varOrder), piSelf)
              /\ PISetAdd({piSelf}, MakePI(piSelf.tokens, jb, varOrder)) = {piSelf}

C14_Witness ==
    /\ piOp = "new" /\ Cardinality(piSelf.tokens) = MaxPITokens
    /\ \E jb \in PIBindings :
          MakePI(piSelf.tokens, jb, varOrder).bindings /= piSelf.bindings
\* C15: a constructor call with a built-in filter as left and as right input
\* fails with an assertion error, and no node constructed has two built-in
\* inputs.
C15_TwoBuiltinsRejected ==
    /\ (call.made /\ call.leftNode.kind = "builtin" /\ call.rightNode.kind = "builtin")
          => error = "AssertionError"
    /\ \A k \in DOMAIN nodes :
          ~(nodes[k].leftNode.kind = "builtin" /\ nodes[k].rightNode.kind = "builtin")

C15_Witness ==
    /\ call.made /\ call.leftNode.kind = "builtin" /\ call.rightNode.kind = "builtin"
    /\ Len(nodes) = 1 /\ nodes[1].fedByBuiltin = RIGHT_MEMORY
\* the clause has a body that is not an And or a Uniterm, an empty body, or
\* a head that is not an And or a Uniterm
BadShape(c) ==
    \/ c.body.type \notin {"And", "Uniterm"}
    \/ Len(c.body.terms) = 0
    \/ c.head.type \notin {"And", "Uniterm"}

\* C16: a call of ExtendN3Rules with a clause of a bad shape raises an
\* assertion error and changes neither ruleStore.rules, ruleStore.formulae
\* nor the nodes of the network.
C16_BadClauseChangesNothing ==
    [][ (clause'.calls > clause.calls /\ BadShape(clause')) =>
            /\ error' = "AssertionError"
            /\ ruleStore'.rules = ruleStore.rules
            /\ ruleStore'.formulae = ruleStore.formulae
            /\ networkNodes' = networkNodes
      ]_vars
C19_PropagationTerminates == (pending /= <<>>) ~> (pending = <<>>)

C19_Witness ==
    /\ pending = <<>> /\ AllFed /\ firings > 0
    /\ \E i \in DOMAIN memL : i > 2 /\ memL[i].items /= {}

C21_AddTokenFilesUnderCommonValues ==
    (pending /= <<>> /\ Head(pending).kind /= "raise"
        /\ (Head(pending).kind = "activate" => Head(pending).node < NumNodes(net))) =>
    LET f == Head(pending)
        x == f.item
        n == IF f.kind = "alpha" THEN f.node ELSE f.node + 1
        cv == commonVariables[n]
        old == IF f.kind = "alpha" THEN memR[n] ELSE memL[n]
        new == IF f.kind = "alpha" THEN Entered(Current, f).memR[n]
               ELSE Entered(Current, f).memL[n]
        keyOf(d) == [k \in DOMAIN cv |-> IF cv[k] \in DOMAIN d THEN d[cv[k]] ELSE None]
        keys == IF IsPI(x) THEN {keyOf(x.bindings[b]) : b \in DOMAIN x.bindings}
                ELSE {keyOf(x.bindingDict)}
    IN /\ MemberHashes(new) = MemberHashes(old) \cup {ItemHash(x)}
       /\ BucketHashes(new) = BucketHashes(old) \cup {<<key, ItemHash(x)>> : key \in keys}

\* an instantiation with binding combinations that differ on the two common
\* variables of the node below is about to be added to its left memory
C21_Witness ==
    /\ pending /= <<>>
    /\ Head(pending).kind = "activate"
    /\ Head(pending).node < NumNodes(net)
    /\ Len(commonVariables[Head(pending).node + 1]) = 2
    /\ Cardinality(Range(CommonVarKeys(Head(pending).item,
                                       commonVariables[Head(pending).node + 1]))) > 1
    /\ ItemHash(Head(pending).item) \notin MemberHashes(memL[Head(pending).node + 1])

C23_BindingsHaveNewJoinVariables ==
    (piOp = "addConsistentBinding"
        /\ Range(piArg[1]) \subseteq TokenVars(piSelf.tokens)) =>
    \A b \in DOMAIN piOut.bindings : Range(piArg[1]) \subseteq DOMAIN piOut.bindings[b]

\* the call is made with a variable that a binding combination of the
\* instantiation did not have
C23_Witness ==
    /\ piOp = "addConsistentBinding"
    /\ Range(piArg[1]) \subseteq TokenVars(piSelf.tokens)
    /\ Cardinality(piSelf.tokens) > 1
    /\ \E b \in DOMAIN piSelf.bindings : ~(Range(piArg[1]) \subseteq DOMAIN piSelf.bindings[b])
    /\ piOut.bindings /= <<>>

\* C24: the union of a memory with another memory has every element of the
\* receiver and every element of the other, and no more.  Stated of every
\* two memories of the network.
C24_UnionHoldsBoth ==
    \A self, other \in Range(memL) \cup Range(memR) :
        MemberHashes(Union(self, other)) = MemberHashes(self) \cup MemberHashes(other)

\* C25: when MapDLPtoNetwork hands LloydToporTransformation a clause whose
\* head is a conjunction of two atoms H and H0 and whose body B is a
\* conjunction or an atom, the clauses that come out are H :- B and H0 :- B.
C25_ConjunctiveHeadIsSplit ==
    (/\ clause.made
     /\ clause.head.type = "And"
     /\ Len(clause.head.terms) = 2
     /\ clause.body.type \in {"And", "Uniterm"})
    => Range(clause.yielded) =
          {[body |-> clause.body,
            head |-> [type |-> "Uniterm", terms |-> <<clause.head.terms[k]>>]] :
              k \in 1..2}

\* C26: when _activate hands an instantiation p to the left input of a join
\* node that no built-in feeds and whose right memory is not empty, the
\* calls of _activate that the node's propagate makes are such that (1) for
\* every binding combination b of p and every token w that the right memory
\* files under the tuple of b's common-variable values, one of them carries
\* an instantiation whose tokens are those of p and w, and (2) every token
\* of an instantiation they carry is a token of p or a right token filed
\* under the key of a binding combination of p.
C26_LeftActivationJoinsByKey ==
    [][ (/\ pending /= <<>>
         /\ Head(pending).kind = "activate"
         /\ Head(pending).node < NumNodes(net)
         /\ ~FedByBuiltin(net, Head(pending).node + 1)
         /\ memR[Head(pending).node + 1].items /= {}) =>
        LET p == Head(pending).item
            i == Head(pending).node + 1
            cv == commonVariables[i]
            keyOf(b) == [k \in DOMAIN cv |-> IF cv[k] \in DOMAIN b THEN b[cv[k]] ELSE None]
            keys == {keyOf(p.bindings[b]) : b \in DOMAIN p.bindings}
            filed == {e[2] : e \in {d \in memR[i].subst : d[1] \in keys}}
            made == SubSeq(pending', 1, Len(pending') - Len(pending) + 1)
            hashes(tokens) == {TokenHash(t) : t \in tokens}
        IN /\ \A k \in DOMAIN made : made[k].kind = "activate" /\ made[k].node = i
           /\ \A w \in filed : \E k \in DOMAIN made :
                 hashes(made[k].item.tokens) = hashes(p.tokens) \cup {TokenHash(w)}
           /\ \A k \in DOMAIN made :
                 hashes(made[k].item.tokens) \subseteq hashes(p.tokens) \cup hashes(filed)
      ]_vars

\* an instantiation is about to reach the left input of a join node whose
\* right memory holds a token filed under the key of one of its binding
\* combinations and a token filed under another key
C26_Witness ==
    /\ pending /= <<>>
    /\ Head(pending).kind = "activate"
    /\ Head(pending).node < NumNodes(net)
    /\ ~FedByBuiltin(net, Head(pending).node + 1)
    /\ LET p == Head(pending).item
           i == Head(pending).node + 1
           keys == Range(CommonVarKeys(p, commonVariables[i]))
       IN /\ \E e \in memR[i].subst : e[1] \in keys
          /\ \E e \in memR[i].subst :
                e[1] \notin keys /\ TokenHash(e[2]) \notin {TokenHash(t) : t \in p.tokens}

\* C27: when a fact's token w reaches the right input of a join node that
\* no built-in feeds and whose left memory is not empty, the calls of
\* _activate that the node's propagate makes carry one instantiation for
\* each entry that the left memory files under the tuple of w's
\* common-variable values, and the tokens of each are w and the tokens of
\* that entry, be the entry an instantiation or a token.
C27_RightActivationJoinsLeftEntries ==
    [][ (/\ pending /= <<>>
         /\ Head(pending).kind = "alpha"
         /\ ~IsPassThru(net, Head(pending).node)
         /\ memL[Head(pending).node].items /= {}) =>
        LET w == Head(pending).item
            i == Head(pending).node
            cv == commonVariables[i]
            key == [k \in DOMAIN cv |-> Get(w.bindingDict, cv[k])]
            entries == {e[2] : e \in {d \in memL[i].subst : d[1] = key}}
            made == SubSeq(pending', 1, Len(pending') - Len(pending) + 1)
            hashes(tokens) == {TokenHash(t) : t \in tokens}
            joined(e) == (IF IsPI(e) THEN hashes(e.tokens) ELSE {TokenHash(e)})
                             \cup {TokenHash(w)}
        IN /\ \A k \in DOMAIN made : made[k].kind = "activate" /\ made[k].node = i
           /\ Len(made) = Cardinality({ItemHash(e) : e \in entries})
           /\ \A e \in entries : \E k \in DOMAIN made :
                 hashes(made[k].item.tokens) = joined(e)
           /\ \A k \in DOMAIN made : \E e \in entries :
                 hashes(made[k].item.tokens) = joined(e)
      ]_vars

\* C28: when a token w reaches a pass-through node, the node's propagate
\* makes exactly one call of _activate, with an instantiation whose only
\* token is w and whose joinedBindings are w's binding; when that call runs,
\* the instantiation is in the left memory of the node below; and the left
\* memory of the pass-through node is empty after every step.
C28_PassThroughWrapsToken ==
    [][ /\ (/\ pending /= <<>>
            /\ Head(pending).kind = "alpha"
            /\ IsPassThru(net, Head(pending).node)) =>
           LET w == Head(pending).item
               made == SubSeq(pending', 1, Len(pending') - Len(pending) + 1)
           IN /\ Len(made) = 1
              /\ made[1].kind = "activate"
              /\ made[1].node = Head(pending).node
              /\ made[1].item.tokens = {w}
              /\ made[1].item.joinedBindings = w.bindingDict
        /\ (/\ pending /= <<>>
            /\ Head(pending).kind = "activate"
            /\ IsPassThru(net, Head(pending).node)
            /\ Head(pending).node < NumNodes(net)) =>
           ItemHash(Head(pending).item) \in MemberHashes(memL'[Head(pending).node + 1])
        /\ \A i \in DOMAIN memL' : IsPassThru(net, i) => memL'[i] = EmptyMemory
      ]_vars

\* the instantiation that a pass-through node made of a token of its right
\* memory is in the left memory of the node below
C28_Witness ==
    \E i \in DOMAIN memL :
        /\ IsPassThru(net, i)
        /\ i < NumNodes(net)
        /\ memL[i] = EmptyMemory
        /\ \E w \in memR[i].items, p \in memL[i + 1].items :
              p.tokens = {w} /\ p.joinedBindings = w.bindingDict

C30_BuiltinForwardsOrRejects ==
    [][ (/\ pending /= <<>>
         /\ Head(pending).kind = "activate"
         /\ Head(pending).node < NumNodes(net)
         /\ FedByBuiltin(net, Head(pending).node + 1)) =>
        LET p == Head(pending).item
            i == Head(pending).node + 1
            filter == Body(net)[i]
            val(term, b) == IF term \in VarNames THEN Get(b, term) ELSE term
            holds == \E b \in DOMAIN p.bindings :
                        Func(filter[2], val(filter[3], p.bindings[b]),
                             val(filter[4], p.bindings[b]))
            made == SubSeq(pending', 1, Len(pending') - Len(pending) + 1)
        IN /\ holds => /\ Len(made) = 1
                       /\ made[1].kind = "activate"
                       /\ made[1].node = i
                       /\ made[1].item.tokens = p.tokens
           /\ ~holds => /\ made = <<>>
                        /\ firings' = firings
                        /\ conflictSet' = conflictSet
                        /\ inferredFacts' = inferredFacts
           /\ memR[i] = EmptyMemory
           /\ memR'[i] = EmptyMemory
      ]_vars

\* an instantiation for which the built-in holds in no binding combination
\* is about to reach the left input of the node that the built-in feeds
C30_Witness ==
    /\ pending /= <<>>
    /\ Head(pending).kind = "activate"
    /\ Head(pending).node < NumNodes(net)
    /\ FedByBuiltin(net, Head(pending).node + 1)
    /\ LET filter == Body(net)[Head(pending).node + 1]
           bindings == Head(pending).item.bindings
       IN \A b \in DOMAIN bindings :
             /\ {filter[3], filter[4]} \cap VarNames \subseteq DOMAIN bindings[b]
             /\ ~Func(filter[2], Operand(filter[3], bindings[b]),
                      Operand(filter[4], bindings[b]))

\* C31: at a join node without common variables that no built-in feeds, a
\* token w that reaches the right input while the left memory is not empty
\* gives one call of _activate for every item of the left memory, with the
\* item's tokens and w; an instantiation p that reaches the left input while
\* the right memory is not empty gives one call for every token of the right
\* memory, with p's tokens and that token.
C31_NoCommonVariablesJoinsAll ==
    [][ (/\ pending /= <<>>
         /\ Head(pending).kind \in {"alpha", "activate"}
         /\ (Head(pending).kind = "activate" => Head(pending).node < NumNodes(net))) =>
        LET f == Head(pending)
            i == IF f.kind = "alpha" THEN f.node ELSE f.node + 1
            opposite == IF f.kind = "alpha" THEN memL[i].items ELSE memR[i].items
            hashes(x) == IF IsPI(x) THEN {TokenHash(t) : t \in x.tokens} ELSE {TokenHash(x)}
            made == SubSeq(pending', 1, Len(pending') - Len(pending) + 1)
        IN (/\ ~IsPassThru(net, i)
            /\ ~FedByBuiltin(net, i)
            /\ commonVariables[i] = <<>>
            /\ opposite /= {}) =>
           /\ Len(made) = Cardinality({ItemHash(x) : x \in opposite})
           /\ \A x \in opposite : \E k \in DOMAIN made :
                 /\ made[k].kind = "activate"
                 /\ made[k].node = i
                 /\ hashes(made[k].item) = hashes(x) \cup hashes(f.item)
      ]_vars

\* an instantiation is about to reach the left input of a join node without
\* common variables whose right memory holds two tokens
C31_Witness ==
    /\ pending /= <<>>
    /\ Head(pending).kind = "activate"
    /\ Head(pending).node < NumNodes(net)
    /\ ~FedByBuiltin(net, Head(pending).node + 1)
    /\ commonVariables[Head(pending).node + 1] = <<>>
    /\ Cardinality(memR[Head(pending).node + 1].items) = 2

\* C32, as the specification states it: the commonVariables of every node
\* constructed are the variables visible on its left input (the left and
\* right variables of a beta node, the variables of the pattern of an alpha
\* node, none without a left input) that are variables of its right input.
C32_CommonVariablesAreIntersection ==
    \A k \in DOMAIN nodes :
        LET visible(input) ==
                IF input.kind = "alpha" THEN {input.pat[j] : j \in 1..3} \cap VarNames
                ELSE IF input.kind = "beta"
                THEN nodes[input.ref].leftVariables \cup nodes[input.ref].rightVariables
                ELSE {}
        IN Range(nodes[k].commonVariables) =
              visible(nodes[k].leftNode) \cap visible(nodes[k].rightNode)

\* C32, amended: the commonVariables of a node constructed without aPassThru
\* are, each once, the variables visible on its left input that are
\* variables of its right input; those of a node constructed with aPassThru
\* are, each once, the variables of its right input.
C32_CommonVariablesUnlessPassThru ==
    \A k \in DOMAIN nodes :
        LET visible(input) ==
                IF input.kind = "alpha" THEN {input.pat[j] : j \in 1..3} \cap VarNames
                ELSE IF input.kind = "beta"
                THEN nodes[input.ref].leftVariables \cup nodes[input.ref].rightVariables
                ELSE {}
            cv == nodes[k].commonVariables
        IN /\ Len(cv) = Cardinality(Range(cv))
           /\ Range(cv) = IF nodes[k].aPassThru THEN visible(nodes[k].rightNode)
                          ELSE visible(nodes[k].leftNode) \cap visible(nodes[k].rightNode)

\* a pass-through node with a common variable is the left input of a join
\* node that has a common variable
C32_Witness ==
    /\ Len(nodes) = 2
    /\ nodes[1].aPassThru
    /\ nodes[1].leftNode.kind = "none"
    /\ nodes[1].commonVariables /= <<>>
    /\ ~nodes[2].aPassThru
    /\ nodes[2].leftNode.kind = "beta"
    /\ nodes[2].rightNode.kind = "alpha"
    /\ nodes[2].commonVariables /= <<>>

\* C33: an instantiation that holds exactly one token, be it the one
\* constructed or the one a method call gives, has exactly one binding
\* combination, and that is the binding of the token, whatever its
\* joinedBindings are.
C33_OneTokenOneBinding ==
    \A x \in {piSelf, piOut} :
        Cardinality(x.tokens) = 1 =>
            x.bindings = << (CHOOSE t \in x.tokens : TRUE).bindingDict >>

\* an instantiation of one token has been constructed with joinedBindings
\* over a variable that the token does not bind
C33_Witness ==
    /\ piOp = "new"
    /\ Cardinality(piSelf.tokens) = 1
    /\ \E v \in DOMAIN piSelf.joinedBindings :
          \A t \in piSelf.tokens : v \notin DOMAIN t.bindingDict

\* C34: unify(left, right) gives one map, the union of the two, when they
\* share no variable outside joinedBindings; when they share one it gives
\* two maps, each defined on the keys of both, the first with left's values
\* and the second with right's values for the variables of both.
C34_UnifyUnionOrTwoMaps ==
    piOp = "unify" =>
        LET left == piArg[1]
            right == piArg[2]
            out == piArg[3]
            keys == DOMAIN left \cup DOMAIN right
            shared == (DOMAIN left \cap DOMAIN right) \ DOMAIN piSelf.joinedBindings
            extends(d, first, second) ==
                /\ DOMAIN d = keys
                /\ \A k \in DOMAIN first : d[k] = first[k]
                /\ \A k \in DOMAIN second \ DOMAIN first : d[k] = second[k]
        IN IF shared = {}
           THEN Len(out) = 1 /\ extends(out[1], left, right) /\ extends(out[1], right, left)
           ELSE Len(out) = 2 /\ extends(out[1], left, right) /\ extends(out[2], right, left)

\* unify has been called with two maps that give different values to a
\* variable that is not joined, and each has a variable the other lacks
C34_Witness ==
    /\ piOp = "unify"
    /\ \E v \in (DOMAIN piArg[1] \cap DOMAIN piArg[2]) \ DOMAIN piSelf.joinedBindings :
          piArg[1][v] /= piArg[2][v]
    /\ Len(piArg[3]) = 2

\* C35: every binding combination of an instantiation of two or more tokens,
\* be it the one constructed or the one a method call gives, has every
\* variable of its joinedBindings, with the value joinedBindings gives it.
C35_BindingsHoldJoinedBindings ==
    \A x \in {piSelf, piOut} :
        Cardinality(x.tokens) >= 2 =>
            \A b \in DOMAIN x.bindings : \A v \in DOMAIN x.joinedBindings :
                v \in DOMAIN x.bindings[b] /\ x.bindings[b][v] = x.joinedBindings[v]

\* an instantiation of two or more tokens with a joined variable and two
\* binding combinations has been constructed
C35_Witness ==
    /\ piOp = "new"
    /\ Cardinality(piSelf.tokens) >= 2
    /\ piSelf.joinedBindings /= <<>>
    /\ Len(piSelf.bindings) >= 2

\* C36: every instantiation that a join node's propagate hands to _activate,
\* on a left activation by an instantiation p or on a right activation by a
\* token w, is the join of an instantiation p with a right token w - p the
\* incoming instantiation and w a token of the right memory, or w the
\* incoming token and p an instantiation of the left memory - and its
\* joinedBindings are those of p together with, for every common variable of
\* the node that is not in p's joinedBindings, w's value for it.
C36_JoinExtendsJoinedBindings ==
    [][ (/\ pending /= <<>>
         /\ \/ /\ Head(pending).kind = "activate"
               /\ Head(pending).node < NumNodes(net)
               /\ ~FedByBuiltin(net, Head(pending).node + 1)
            \/ /\ Head(pending).kind = "alpha"
               /\ ~IsPassThru(net, Head(pending).node)) =>
        LET left == Head(pending).kind = "activate"
            i == IF left THEN Head(pending).node + 1 ELSE Head(pending).node
            cv == Range(commonVariables[i])
            ps == IF left THEN {Head(pending).item}
                  ELSE {e \in memL[i].items : IsPI(e)}
            ws == IF left THEN {e \in memR[i].items : ~IsPI(e)}
                  ELSE {Head(pending).item}
            made == SubSeq(pending', 1, Len(pending') - Len(pending) + 1)
            hashes(tokens) == {TokenHash(t) : t \in tokens}
            extended(p, w) ==
                [v \in DOMAIN p.joinedBindings \cup cv |->
                    IF v \in DOMAIN p.joinedBindings THEN p.joinedBindings[v]
                    ELSE w.bindingDict[v]]
        IN \A k \in DOMAIN made :
              /\ made[k].kind = "activate" /\ made[k].node = i
              /\ \E p \in ps : \E w \in ws :
                    /\ hashes(made[k].item.tokens) = hashes(p.tokens) \cup {TokenHash(w)}
                    /\ made[k].item.joinedBindings = extended(p, w)
      ]_vars

C38_MembersAreFiled ==
    \A i \in 1..NumNodes(net) : \A mem \in {memL[i], memR[i]} :
        MemberHashes(mem) = {ItemHash(e[2]) : e \in mem.subst}

\* a right memory holds a token again after it has been reset (a fact that
\* has been fed to it has no token in it), and a left memory of the network
\* holds an instantiation
C38_Witness ==
    /\ pending = <<>>
    /\ \E i \in 1..NumNodes(net) :
          /\ memR[i].items /= {}
          /\ \E fact \in Fed : \E f \in Range(AlphaFrames(net, fact, 0)) :
                f.node = i /\ TokenHash(f.item) \notin MemberHashes(memR[i])
    /\ \E i \in 1..NumNodes(net) : \E x \in memL[i].items : IsPI(x)

\* C39: two instantiations whose sets of tokens differ (as sets of facts
\* with their bindings) do not compare equal, and a Set that holds one of
\* them takes the other in.
C39_DifferentTokensDiffer ==
    piOp = "hash" =>
        LET facts(x) == {[fact |-> t.fact, bindingDict |-> t.bindingDict] : t \in x.tokens}
        IN facts(piSelf) /= facts(piOut) =>
              /\ ~PIEq(piSelf, piOut)
              /\ PISetAdd({piSelf}, piOut) = {piSelf, piOut}

====
